---------------------------- MODULE Spec2Model ----------------------------
(***************************************************************************)
(* weeBell bluetooth (gcore_pots_bt): a state-machine model of the         *)
(* firmware's tasks.  Every task polls a 32-bit notification word          *)
(* (read-and-clear, non blocking), updates its flags from the bits it      *)
(* read and then evaluates its state machine once.  One action of the      *)
(* model is one pass of a task's loop body; the environment (the HFP       *)
(* stack callbacks, the GUI, the hook switch) supplies the inputs.         *)
(*                                                                         *)
(* Notification bits are modelled by name, a notification word by the set  *)
(* of the names of its set bits.                                           *)
(***************************************************************************)
EXTENDS Integers, Sequences, FiniteSets, TLC

(***************************************************************************)
(* Bounds of the exploration (not program constants).                      *)
(***************************************************************************)
\* at most this many notification bits are set between two polls of app_task
MaxPendingBits == 2
\* the environment stops sending digits once the dialled number is this long
MaxDigits == 1
\* the environment stops sending ring indications at this ring_count
MaxRingCount == 2
\* dialing_pots_digit_timer is unbounded in the code; polls that would count
\* past this value are not explored
MaxDialTimer == 3
\* the two orchestrator time-outs are explored with their durations divided
\* by this factor (7000 ms -> 200 ms = 4 evaluations, 4000 ms -> 2)
AppTimeScale == 35
\* the reconnect period of bt_task is explored divided by this factor
\* (60000 ms -> 60 ms = 3 evaluations)
BtTimeScale == 1000
\* a bit is set at most this many times between two reads of the word
MaxSets == 2
\* the sample rate is divided by this to keep the buffers small
AudioRateScale == 50
\* longest block the Bluetooth side gets or puts in one call
MaxPutLen == 17
\* the milliseconds of a country profile are divided by this
PotsTimeScale == 33
\* the ring counter of pots_task is followed up to this value
MaxPotsRings == 2
\* rotary pulses counted in one digit
MaxPulses == 1
\* the user stops dialling once the number is this long (SpecDial)
MaxDialDigits == 2
\* the off-hook timeout of a country profile is divided by this (SpecLine)
OffHookTimeScale == 1100
\* rotary pulses of one train followed in SpecLine
MaxLinePulses == 2
\* evaluations for which dtmf_tx returns audio of one digit (SpecLine)
MaxBurstPolls == 2
\* presses of a key of the screen during one call (SpecKeys)
MaxPresses == 2
\* largest country code found in the settings store (a byte in the code)
MaxCountryCode == 8
\* gain changes made on the settings screen and on the remote device
MaxGainChanges == 2
\* samples by which the count of the TX alignment queue may leave
\* 0..TX_ALIGN_SAMPLES before the exploration stops
MaxAlignExcess == 1
\* longest block asked of audioGetToneRx / audioGetVoiceRx
MaxGetLen == 2

(***************************************************************************)
(* Program constants.                                                      *)
(***************************************************************************)
APP_EVAL_MSEC == 50
APP_LAST_RING_DETECT_MSEC == 7000
APP_LAST_DIGIT_2_DIAL_MSEC == 4000
APP_MAX_DIALED_DIGITS == 256
BT_EVAL_MSEC == 20
BT_RECONNECT_MSEC == 60000

APP_LAST_RING_DETECT_COUNT == (APP_LAST_RING_DETECT_MSEC \div AppTimeScale) \div APP_EVAL_MSEC
APP_LAST_DIGIT_2_DIAL_COUNT == (APP_LAST_DIGIT_2_DIAL_MSEC \div AppTimeScale) \div APP_EVAL_MSEC

\* speaker gain used while a tone must be loud (off-hook howler, caller ID)
GAIN_APP_SPK_MAX_DB == "max"

\* app_state_t
app_state_t ==
  {"DISCONNECTED", "CONNECTED_IDLE", "CALL_RECEIVED", "CALL_WAIT_ACTIVE",
   "DIALING", "CALL_INITIATED", "CALL_ACTIVE", "CALL_ACTIVE_VOICE",
   "CALL_WAIT_END", "CALL_WAIT_ONHOOK"}

\* the notification bits of app_task (APP_NOTIFY_..._MASK)
AppNotifyBits ==
  {"POTS_ON_HOOK", "POTS_OFF_HOOK", "POTS_DIGIT_DIALED", "GUI_DIGIT_DIALED",
   "GUI_DIGIT_DELETED", "GUI_DIAL_BTN_PRESSED", "BT_IN_SERVICE",
   "BT_OUT_OF_SERVICE", "BT_RING", "BT_CALL_STARTED", "BT_CALL_ENDED",
   "BT_CID_AVAILABLE", "BT_AUDIO_START", "BT_AUDIO_ENDED",
   "NEW_GUI_MIC_GAIN", "NEW_GUI_SPK_GAIN", "NEW_BT_MIC_GAIN",
   "NEW_BT_SPK_GAIN", "POTS_MAX_SPK_GAIN", "POTS_NORM_SPK_GAIN"}

\* Notification(var, mask): all bits of the mask are set in the word
Notification(var, mask) == mask \in var

VARIABLES
  app,          \* the static variables of app_task.c
  app_notify,   \* the notification word of app_task
  bt,           \* the static variables of bt_task.c
  bt_notify,    \* the notification word of bt_task
  env,          \* the world outside the tasks: HFP link, handset
  nt,           \* one receiving task and its notification word, step by step
  pots,         \* the static variables of pots_task.c
  aud           \* the circular buffers of audio_task.c

appVars == <<app, app_notify>>
btVars == <<bt, bt_notify>>
sysVars == <<appVars, btVars, env>>
vars == <<appVars, btVars, env, nt, pots, aud>>

\* the value of the variables a specification does not use
ntIdle == <<>>

(***************************************************************************)
(* audio_task.c: the two circular sample buffers                           *)
(***************************************************************************)
AUDIO_SAMPLE_RATE == 8000
MAX_READ_NUM_SAMPLES == 3
I2S_SAMPLES == (10 * (AUDIO_SAMPLE_RATE \div AudioRateScale)) \div 1000
BUF_SAMPLES == 8 * I2S_SAMPLES

\* a buffer: put index, pop index, valid count; ovf records whether the last
\* put took the overflow branch
audBufInit == [put |-> 0, pop |-> 0, count |-> 0, ovf |-> FALSE]

\* "buf[put++] = x; if (put >= BUF_SAMPLES) put = 0;" executed len times
RECURSIVE audioAdvance(_, _)
audioAdvance(idx, len) ==
  IF len = 0 THEN idx
  ELSE audioAdvance(IF idx + 1 >= BUF_SAMPLES THEN 0 ELSE idx + 1, len - 1)

\* variant of the put: the count is not reduced on overflow
audioPut_NoWrap(b, len) ==
  [b EXCEPT !.put = audioAdvance(b.put, len),
            !.count = b.count + len,
            !.ovf = b.count + len > BUF_SAMPLES]

\* the critical section of _audioPutTx and of _audioPutRx
audioPut(b, len) ==
  [b EXCEPT !.put = audioAdvance(b.put, len),
            !.count = IF b.count + len > BUF_SAMPLES
                        THEN (b.count + len) % BUF_SAMPLES
                        ELSE b.count + len,
            !.ovf = b.count + len > BUF_SAMPLES]

\* the critical section of _audioGetRx and of _audioGetTx
audioGet(b, len) ==
  LET read_len == IF len > b.count THEN b.count ELSE len
  IN [b EXCEPT !.pop = audioAdvance(b.pop, read_len),
               !.count = b.count - read_len,
               !.ovf = FALSE]

audioGetRx(a, len) == [a EXCEPT !.rx = audioGet(a.rx, len)]
audioPutTx(a, len) == [a EXCEPT !.tx = audioPut(a.tx, len)]
audioGetTx(a, len) ==
  [a EXCEPT !.tx = audioGet(a.tx, IF a.ext_sr_16k THEN 2 * len ELSE len)]
audioPutRx(a, len) ==
  [a EXCEPT !.rx = audioPut(a.rx, IF a.ext_sr_16k THEN 2 * len ELSE len)]

\* init_pc = "tx": _audioInitBuffers has released the RX mutex and not yet
\* taken the TX mutex.  The other static variables of audio_task.c:
\*   notify   the notification word of audio_task
\*   pc       where audio_task is: "idle" at the top of its outer loop,
\*            "stream" in the streaming loop
\* and histories, for the properties:
\*   dc_clean      dc_restore_state has taken no sample since dc_restore_init
\*   us_clean      us_taps has taken no sample since it was zeroed
\*   switched      the last step was a pass of _audioHandleNotifications
\*                 that ran the body of an enable branch
\*   stream_mode   <<audio_mux_to_tone, ext_sr_16k>> when the stream was
\*                 primed after the last _audioInitBuffers, "none" outside
\*                 the streaming loop (then the empty tuple)
\*   get           the last call of audioGetToneRx / audioGetVoiceRx: len
\*                 requested, avail = valid samples the caller could get,
\*                 ret returned, copied from the buffer, zeroed in the
\*                 caller's buffer (called is false after any other step)
audGetNone == [called |-> FALSE, len |-> 0, avail |-> 0, ret |-> 0,
               copied |-> 0, zeroed |-> 0]

audInit == [rx |-> audBufInit, tx |-> audBufInit, ext_sr_16k |-> FALSE,
            init_pc |-> "none",
            audio_enabled |-> FALSE, audio_restart |-> FALSE,
            audio_mux_to_tone |-> FALSE, audio_mute_mic |-> FALSE,
            i2s_tx_buf_push |-> 0, i2s_tx_buf_pop |-> 0, i2s_tx_buf_count |-> 0,
            notify |-> {}, pc |-> "idle",
            dc_clean |-> TRUE, us_clean |-> TRUE, switched |-> FALSE,
            stream_mode |-> <<>>, get |-> audGetNone]

TX_ALIGN_SAMPLES == 4 * I2S_SAMPLES

\* variant: the count of the queue is left as it is
audioInitTxAlign_KeepCount(a) ==
  [a EXCEPT !.i2s_tx_buf_push = 3 * I2S_SAMPLES,
            !.i2s_tx_buf_pop = 0]

\* _audioInitTxAlign
audioInitTxAlign(a) ==
  [a EXCEPT !.i2s_tx_buf_push = 3 * I2S_SAMPLES,
            !.i2s_tx_buf_pop = 0,
            !.i2s_tx_buf_count = 0]

\* "idx++; if (idx == TX_ALIGN_SAMPLES) idx = 0;" executed len times
RECURSIVE audioAlignAdvance(_, _)
audioAlignAdvance(idx, len) ==
  IF len = 0 THEN idx
  ELSE audioAlignAdvance(IF idx + 1 = TX_ALIGN_SAMPLES THEN 0 ELSE idx + 1, len - 1)

\* _audioPushTxAlign
audioPushTxAlign(a, len) ==
  IF a.audio_mux_to_tone THEN a
  ELSE [a EXCEPT !.i2s_tx_buf_count = @ + len,
                 !.i2s_tx_buf_push = audioAlignAdvance(@, len)]

\* _audioGetTxAlign called len times (once per sample received)
audioGetTxAlign(a, len) ==
  [a EXCEPT !.i2s_tx_buf_pop = audioAlignAdvance(@, len),
            !.i2s_tx_buf_count = @ - len]

\* _audioHandleNotifications, one operator per notification bit
audioOnDisable(a, nv) ==
  IF Notification(nv, "DISABLE") THEN [a EXCEPT !.audio_enabled = FALSE] ELSE a

audioOnEnTone(a, nv) ==
  IF /\ Notification(nv, "EN_TONE")
     /\ ~(a.audio_enabled /\ a.audio_mux_to_tone /\ ~a.ext_sr_16k)
    THEN [a EXCEPT !.audio_restart = IF a.audio_enabled THEN TRUE ELSE @,
                   !.audio_enabled = TRUE,
                   !.audio_mux_to_tone = TRUE,
                   !.ext_sr_16k = FALSE,
                   !.dc_clean = TRUE,
                   !.switched = TRUE]
    ELSE a

\* echo_can_flush is not part of the state
audioOnEnVoice8(a, nv) ==
  IF /\ Notification(nv, "EN_VOICE_8")
     /\ ~(a.audio_enabled /\ ~a.audio_mux_to_tone /\ ~a.ext_sr_16k)
    THEN audioInitTxAlign(
           [a EXCEPT !.audio_restart = IF a.audio_enabled THEN TRUE ELSE @,
                     !.audio_enabled = TRUE,
                     !.audio_mux_to_tone = FALSE,
                     !.ext_sr_16k = FALSE,
                     !.switched = TRUE])
    ELSE a

audioOnEnVoice16(a, nv) ==
  IF /\ Notification(nv, "EN_VOICE_16")
     /\ ~(a.audio_enabled /\ ~a.audio_mux_to_tone /\ a.ext_sr_16k)
    THEN audioInitTxAlign(
           [a EXCEPT !.audio_restart = IF a.audio_enabled THEN TRUE ELSE @,
                     !.audio_enabled = TRUE,
                     !.audio_mux_to_tone = FALSE,
                     !.ext_sr_16k = TRUE,
                     !.us_clean = TRUE,
                     !.switched = TRUE])
    ELSE a

audioOnMuteMic(a, nv) ==
  IF Notification(nv, "UNMUTE_MIC") THEN [a EXCEPT !.audio_mute_mic = FALSE]
  ELSE IF Notification(nv, "MUTE_MIC") THEN [a EXCEPT !.audio_mute_mic = TRUE]
  ELSE a

\* _audioHandleNotifications: the word is read and cleared
audioHandleNotifications(a) ==
  audioOnMuteMic(
   audioOnEnVoice16(
    audioOnEnVoice8(
     audioOnEnTone(
      audioOnDisable([a EXCEPT !.notify = {}, !.switched = FALSE, !.get = audGetNone],
                     a.notify),
      a.notify),
     a.notify),
    a.notify),
   a.notify)

\* audio_task, I2S_EVENT_TX_DONE (and the priming of the stream)
audioTxDone(a) == audioPushTxAlign(audioGetTx(a, I2S_SAMPLES), I2S_SAMPLES)

\* audio_task, I2S_EVENT_RX_DONE with len samples read: DC restoration for
\* tones, echo cancellation against the aligned TX samples for voice, then
\* _audioPutRx (which runs the upsample filter at 16 kHz unless muted)
audioRxDone(a, len) ==
  LET b == IF a.audio_mux_to_tone
             THEN [a EXCEPT !.dc_clean = @ /\ len = 0]
             ELSE audioGetTxAlign(a, len)
  IN audioPutRx([b EXCEPT !.us_clean =
                    @ /\ ~(b.ext_sr_16k /\ ~b.audio_mute_mic /\ len > 0)],
                len)

\* _audioGetRx as its caller sees it
audioGetRxCall(a, len) ==
  LET read_len == IF len > a.rx.count THEN a.rx.count ELSE len
  IN [audioGetRx(a, len) EXCEPT
        !.get = [called |-> TRUE,
                 len |-> len, avail |-> a.rx.count, ret |-> read_len,
                 copied |-> read_len, zeroed |-> len - read_len]]

\* the branch of audioGetToneRx / audioGetVoiceRx that does not read
audioGetRxNone(a, len) ==
  [a EXCEPT !.get = [called |-> TRUE, len |-> len, avail |-> 0, ret |-> len,
                     copied |-> 0, zeroed |-> len]]

audioGetToneRx(a, len) ==
  IF a.audio_enabled /\ a.audio_mux_to_tone
    THEN audioGetRxCall(a, len) ELSE audioGetRxNone(a, len)

audioGetVoiceRx(a, len) ==
  IF a.audio_enabled /\ ~a.audio_mux_to_tone
    THEN audioGetRxCall(a, len) ELSE audioGetRxNone(a, len)

(***************************************************************************)
(* pots_task.c                                                             *)
(***************************************************************************)
POTS_EVAL_MSEC == 10
POTS_ON_HOOK_DETECT_MSEC == 500
POTS_ROT_BREAK_MSEC == 100
POTS_ROT_MAKE_MSEC == 100
POTS_TONE_FLUSH_MSEC == 30
POTS_CID_FLUSH_MSEC == 50

\* a duration of the country profile in evaluations of pots_task
PotsMsec(msec) == (msec \div PotsTimeScale) \div POTS_EVAL_MSEC

\* off_hook_timeout / POTS_EVAL_MSEC
PotsOffHookCount(msec) == (msec \div OffHookTimeScale) \div POTS_EVAL_MSEC

\* international.c: entries of the country table ("United States", "Europe",
\* "India") and two further profiles of the same schema: before-ring with the
\* RP-AS ring alert, and before-ring with a DTMF standard that has no absence
\* encoding.  cid_spec is kept as its fields: format, BEFORE_RING, EN_LR,
\* EN_DT_AS, EN_RP_AS.
Countries == {"United States", "Europe", "India", "RP-AS", "DTMF3"}

country_info(c) ==
  CASE c = "United States" ->
         [cid_type |-> "BELLCORE_FSK", before_ring |-> FALSE, en_lr |-> FALSE,
          en_dt_as |-> FALSE, en_rp_as |-> FALSE,
          pre_msec |-> 0, post_msec |-> 200, rp_as_msec |-> 0,
          freq |-> 20, num_cadence_pairs |-> 1, cadence_pairs |-> <<2000, 200, 0, 0>>,
          off_hook_timeout |-> 60000,
          rotary_map |-> <<1, 2, 3, 4, 5, 6, 7, 8, 9, 0>>]
    [] c = "Europe" ->
         [cid_type |-> "ETSI_FSK", before_ring |-> TRUE, en_lr |-> FALSE,
          en_dt_as |-> TRUE, en_rp_as |-> FALSE,
          pre_msec |-> 0, post_msec |-> 200, rp_as_msec |-> 0,
          freq |-> 25, num_cadence_pairs |-> 1, cadence_pairs |-> <<1000, 200, 0, 0>>,
          off_hook_timeout |-> 0,
          rotary_map |-> <<1, 2, 3, 4, 5, 6, 7, 8, 9, 0>>]
    [] c = "India" ->
         [cid_type |-> "DTMF1", before_ring |-> TRUE, en_lr |-> TRUE,
          en_dt_as |-> FALSE, en_rp_as |-> FALSE,
          pre_msec |-> 100, post_msec |-> 200, rp_as_msec |-> 0,
          freq |-> 25, num_cadence_pairs |-> 2, cadence_pairs |-> <<400, 200, 400, 2000>>,
          off_hook_timeout |-> 0,
          rotary_map |-> <<1, 2, 3, 4, 5, 6, 7, 8, 9, 0>>]
    [] c = "RP-AS" ->
         [cid_type |-> "ETSI_FSK", before_ring |-> TRUE, en_lr |-> FALSE,
          en_dt_as |-> FALSE, en_rp_as |-> TRUE,
          pre_msec |-> 500, post_msec |-> 200, rp_as_msec |-> 250,
          freq |-> 25, num_cadence_pairs |-> 1, cadence_pairs |-> <<1000, 200, 0, 0>>,
          off_hook_timeout |-> 0,
          rotary_map |-> <<1, 2, 3, 4, 5, 6, 7, 8, 9, 0>>]
    [] c = "New Zealand Rev" ->
         [cid_type |-> "BELLCORE_FSK", before_ring |-> FALSE, en_lr |-> FALSE,
          en_dt_as |-> FALSE, en_rp_as |-> FALSE,
          pre_msec |-> 0, post_msec |-> 200, rp_as_msec |-> 0,
          freq |-> 25, num_cadence_pairs |-> 2, cadence_pairs |-> <<400, 200, 400, 200>>,
          off_hook_timeout |-> 0,
          rotary_map |-> <<9, 8, 7, 6, 5, 4, 3, 2, 1, 0>>]
    [] c = "Australia" ->
         [cid_type |-> "BELLCORE_FSK", before_ring |-> FALSE, en_lr |-> FALSE,
          en_dt_as |-> FALSE, en_rp_as |-> FALSE,
          pre_msec |-> 0, post_msec |-> 200, rp_as_msec |-> 0,
          freq |-> 25, num_cadence_pairs |-> 2, cadence_pairs |-> <<400, 200, 400, 2000>>,
          off_hook_timeout |-> 60000,
          rotary_map |-> <<1, 2, 3, 4, 5, 6, 7, 8, 9, 0>>]
    [] c = "Germany pre-1979" ->
         [cid_type |-> "NONE", before_ring |-> FALSE, en_lr |-> FALSE,
          en_dt_as |-> FALSE, en_rp_as |-> FALSE,
          pre_msec |-> 0, post_msec |-> 0, rp_as_msec |-> 0,
          freq |-> 25, num_cadence_pairs |-> 1, cadence_pairs |-> <<1000, 200, 0, 0>>,
          off_hook_timeout |-> 0,
          rotary_map |-> <<1, 2, 3, 4, 5, 6, 7, 8, 9, 0>>]
    [] c = "United Kingdom" ->
         [cid_type |-> "SIN227", before_ring |-> TRUE, en_lr |-> TRUE,
          en_dt_as |-> TRUE, en_rp_as |-> FALSE,
          pre_msec |-> 100, post_msec |-> 200, rp_as_msec |-> 0,
          freq |-> 25, num_cadence_pairs |-> 2, cadence_pairs |-> <<400, 200, 400, 200>>,
          off_hook_timeout |-> 60000,
          rotary_map |-> <<1, 2, 3, 4, 5, 6, 7, 8, 9, 0>>]
    [] c = "DTMF3" ->
         [cid_type |-> "DTMF3", before_ring |-> TRUE, en_lr |-> TRUE,
          en_dt_as |-> FALSE, en_rp_as |-> FALSE,
          pre_msec |-> 100, post_msec |-> 200, rp_as_msec |-> 0,
          freq |-> 25, num_cadence_pairs |-> 1, cadence_pairs |-> <<1000, 200, 0, 0>>,
          off_hook_timeout |-> 0,
          rotary_map |-> <<1, 2, 3, 4, 5, 6, 7, 8, 9, 0>>]

\* country_code_infoP
potsInfo(p) == country_info(p.country)

\* country_info[] in the order of its indices
CountryTable ==
  <<"Australia", "Europe", "Germany pre-1979", "India", "New Zealand Rev",
    "United States", "United Kingdom">>

NUM_COUNTRIES == 7
INT_DEFAULT_COUNTRY == 1

\* int_get_country_info: the name of the profile stands for the pointer to
\* it, "NULL" for the null pointer
int_get_country_info(n) ==
  IF (n < 0) \/ (n >= NUM_COUNTRIES) THEN "NULL" ELSE CountryTable[n + 1]

\* the country code pots_task starts with, given the stored one
potsStartCountry(code) == IF code >= NUM_COUNTRIES THEN 0 ELSE code

\* (cid_spec & INT_CID_TYPE_MASK) != 0
potsCidEnabled(p) == potsInfo(p).cid_type # "NONE"

\* the static variables of pots_task.c after the start of the task, the two
\* outputs to the line interface (ring mode RM, line reversal), and
\*   cid_len_zero    app_get_cid_number() returns 0 (no caller number)
\*   sent            notifications sent in the current evaluation
\*   hook_changed, digit_dialed   locals of the loop
\* History of the current evaluation, for the properties:
\*   hold_polls      consecutive evaluations with the debounced level on-hook
\*   make_polls      consecutive evaluations with the debounced level off-hook
\*   train           rotary pulses of the current train: on-hook intervals of
\*                   the debounced level of at most 100 ms, each following
\*                   the one before after at most 100 ms off-hook
\*                   (both kept by potsDialHistory in SpecLine)
\*   report_src      origin of the digit reported: "rotary", "dtmf" or "none"
\*   dtmf_fed        dtmf_rx was called with the received audio
\*   burst_polls     evaluations in which dtmf_tx has returned audio of the
\*                   digit being generated
\*   ring_started    _potsStartRing ran: "normal", "rp_as" or "none"
\*   ring_start_cid, ring_start_tone   pots_cid_state / pots_tone_state then
\*                   ("none" when no ring was started)
\*   ring_start_post, ring_start_msg   cid_post_done / cid_msg_done then
\*   ring_aborted    the ring state that going off-hook has ended, or "none"
\*   cid_skipped     _potsSetupCID returned false
\*   cid_started     the Caller-ID sequence left CID_IDLE
\*   ringh           the ring pulses (kept by potsPulseHistory in SpecRing):
\*                   on, off = evaluations begun in RING_PULSE_ON and in
\*                   RING_PULSE_OFF in the pulse in progress; last_on,
\*                   last_off = those of the last whole pulse; pulses, ticks
\*                   = whole pulses so far and the evaluations they took
\* History of the call:
\*   rings_in_call   normal rings started since the ring counter was reset
\*   cids_in_call    Caller-ID messages started since the ring counter was
\*                   reset
\*   cid_post_done   the last Caller-ID sequence started has finished its
\*                   post_msec wait
\*   cid_msg_done    the message of the last Caller-ID sequence started has
\*                   been transmitted completely
ringHistInit == [on |-> 0, off |-> 0, last_on |-> 0, last_off |-> 0,
                 pulses |-> 0, ticks |-> 0]

potsInit(c, nocid) ==
  [country |-> c, ringh |-> ringHistInit, cid_len_zero |-> nocid,
   pots_in_service |-> FALSE, pots_has_call_audio |-> FALSE,
   pots_call_audio_16k |-> FALSE,
   pots_state |-> "ON_HOOK", pots_state_count |-> 0,
   pots_cur_off_hook |-> FALSE, pots_prev_off_hook |-> FALSE,
   pots_saw_hook_state_change |-> FALSE,
   pots_do_not_disturb |-> FALSE,
   pots_trigger_pots_ring |-> FALSE, pots_trigger_cid_ring |-> FALSE,
   pots_ring_state |-> "RING_IDLE", pots_num_ring_steps |-> 0,
   pots_ring_step |-> 0, pots_ring_period_count |-> 0,
   pots_ring_pulse_count |-> 0, pots_ring_num |-> 0,
   pots_dial_state |-> "DIAL_IDLE", pots_dial_period_count |-> 0,
   pots_dial_pulse_count |-> 0, pots_dial_cur_digit |-> " ",
   pots_dial_last_dtmf_digit |-> " ",
   pots_tone_state |-> "TONE_IDLE", pots_tone_timer_count |-> 0,
   pots_notify_ext_digit_dialed |-> FALSE,
   pots_trigger_cid |-> FALSE, pots_cid_state |-> "CID_IDLE",
   pots_cid_wait_count |-> 0,
   line_rm |-> FALSE, line_reverse |-> FALSE,
   sent |-> {}, hook_changed |-> FALSE, digit_dialed |-> FALSE,
   hold_polls |-> (POTS_ON_HOOK_DETECT_MSEC \div POTS_EVAL_MSEC) + 1,
   make_polls |-> 0, train |-> 0, report_src |-> "none", dtmf_fed |-> FALSE,
   burst_polls |-> 0,
   ring_started |-> "none",
   ring_start_cid |-> "none", ring_start_tone |-> "none",
   ring_start_post |-> FALSE, ring_start_msg |-> FALSE, rings_in_call |-> 0,
   ring_aborted |-> "none", cid_skipped |-> FALSE, cid_started |-> FALSE,
   cid_post_done |-> FALSE, cid_msg_done |-> FALSE, cids_in_call |-> 0,
   audio_req |-> "DISABLE"]

potsIdle == potsInit("United States", FALSE)

\* xTaskNotify(task_handle_<t>, <bit>, eSetBits) issued by pots_task
potsNotify(p, t, bit) == [p EXCEPT !.sent = @ \cup {<<t, bit>>}]

\* xTaskNotify(task_handle_audio, <bit>, eSetBits) of _potsSetAudioOutput;
\* audio_req is the history of the last source asked for
potsNotifyAudio(p, bit) == [potsNotify(p, "audio", bit) EXCEPT !.audio_req = bit]

\* _potsLineReverse / _potsLineRingMode
potsLineReverse(p, en) == [p EXCEPT !.line_reverse = en]
potsLineRingMode(p, en) == [p EXCEPT !.line_rm = en]

\* the ring counter is reset: the history of the call starts again
potsResetRingNum(p) ==
  [p EXCEPT !.pots_ring_num = 0, !.rings_in_call = 0, !.cids_in_call = 0]

\* _potsHandleNotifications, one operator for each bit in the order of the
\* source; nv is the value read from the notification word
potsOnInService(p, nv) ==
  IF Notification(nv, "IN_SERVICE") THEN [p EXCEPT !.pots_in_service = TRUE] ELSE p

potsOnOutOfService(p, nv) ==
  IF Notification(nv, "OUT_OF_SERVICE") THEN [p EXCEPT !.pots_in_service = FALSE] ELSE p

potsOnAudio8k(p, nv) ==
  IF Notification(nv, "AUDIO_8K") THEN [p EXCEPT !.pots_has_call_audio = TRUE] ELSE p

potsOnAudio16k(p, nv) ==
  IF Notification(nv, "AUDIO_16K")
    THEN [p EXCEPT !.pots_has_call_audio = TRUE, !.pots_call_audio_16k = TRUE]
    ELSE p

potsOnAudioDis(p, nv) ==
  IF Notification(nv, "AUDIO_DIS")
    THEN [p EXCEPT !.pots_has_call_audio = FALSE, !.pots_call_audio_16k = FALSE]
    ELSE p

potsOnMuteRing(p, nv) ==
  IF Notification(nv, "MUTE_RING") THEN [p EXCEPT !.pots_do_not_disturb = TRUE] ELSE p

potsOnUnmuteRing(p, nv) ==
  IF Notification(nv, "UNMUTE_RING") THEN [p EXCEPT !.pots_do_not_disturb = FALSE] ELSE p

potsOnRing(p, nv) ==
  IF Notification(nv, "RING") /\ ~p.pots_do_not_disturb
    THEN IF p.pots_ring_num = 0 /\ potsCidEnabled(p) /\ potsInfo(p).before_ring
           THEN [p EXCEPT !.pots_trigger_cid = TRUE]
           ELSE [p EXCEPT !.pots_trigger_pots_ring = TRUE]
    ELSE p

potsOnDoneRinging(p, nv) ==
  IF Notification(nv, "DONE_RINGING") THEN potsResetRingNum(p) ELSE p

potsOnExtDialDigit(p, nv) ==
  IF Notification(nv, "EXT_DIAL_DIGIT")
    THEN [p EXCEPT !.pots_notify_ext_digit_dialed = TRUE]
    ELSE p

\* cc is the country code read back from the persistent storage; the tone
\* generator set up again by _potsSetupAudioTone is not part of the state
potsOnNewCountry(p, nv, cc) ==
  IF Notification(nv, "NEW_COUNTRY") THEN [p EXCEPT !.country = cc] ELSE p

potsHandleNotifications(p, nv, cc) ==
  potsOnNewCountry(
   potsOnExtDialDigit(
    potsOnDoneRinging(
     potsOnRing(
      potsOnUnmuteRing(
       potsOnMuteRing(
        potsOnAudioDis(
         potsOnAudio16k(
          potsOnAudio8k(
           potsOnOutOfService(
            potsOnInService(p, nv), nv), nv), nv), nv), nv), nv), nv), nv), nv), nv, cc)

\* variant: the level of the input is taken without debounce
potsEvalHook_NoDebounce(p, cur_hw_off_hook) ==
  LET up == cur_hw_off_hook /\ ~p.pots_cur_off_hook
      down == ~cur_hw_off_hook /\ p.pots_cur_off_hook
      cur == cur_hw_off_hook
  IN [p EXCEPT !.pots_cur_off_hook = cur,
               !.pots_prev_off_hook = cur_hw_off_hook,
               !.hook_changed = up \/ down,
               !.hold_polls = IF cur THEN 0
                              ELSE IF @ > POTS_ON_HOOK_DETECT_MSEC \div POTS_EVAL_MSEC
                                THEN @ ELSE @ + 1]

\* _potsEvalHook: cur_hw_off_hook is the level of the hook switch input
potsEvalHook(p, cur_hw_off_hook) ==
  LET up == cur_hw_off_hook /\ p.pots_prev_off_hook /\ ~p.pots_cur_off_hook
      down == ~cur_hw_off_hook /\ ~p.pots_prev_off_hook /\ p.pots_cur_off_hook
      cur == IF up THEN TRUE ELSE IF down THEN FALSE ELSE p.pots_cur_off_hook
  IN [p EXCEPT !.pots_cur_off_hook = cur,
               !.pots_prev_off_hook = cur_hw_off_hook,
               !.hook_changed = up \/ down,
               !.hold_polls = IF cur THEN 0
                              ELSE IF @ > POTS_ON_HOOK_DETECT_MSEC \div POTS_EVAL_MSEC
                                THEN @ ELSE @ + 1]

\* _potsEvalPhoneState(hookChange): the switch, then the notification
potsPhoneStateSwitch(p) ==
  LET q == [p EXCEPT !.pots_saw_hook_state_change = FALSE]
  IN CASE q.pots_state = "ON_HOOK" ->
            IF q.hook_changed /\ q.pots_cur_off_hook
              THEN [q EXCEPT !.pots_state = "OFF_HOOK",
                             !.pots_saw_hook_state_change = TRUE]
              ELSE q
       [] q.pots_state = "OFF_HOOK" ->
            IF q.hook_changed /\ ~q.pots_cur_off_hook
              THEN [q EXCEPT !.pots_state = "ON_HOOK_PROVISIONAL",
                             !.pots_state_count = 0]
              ELSE q
       [] q.pots_state = "ON_HOOK_PROVISIONAL" ->
            LET c == q.pots_state_count + 1
            IN IF q.hook_changed /\ q.pots_cur_off_hook
                 THEN [q EXCEPT !.pots_state_count = c, !.pots_state = "OFF_HOOK"]
                 ELSE IF c >= POTS_ON_HOOK_DETECT_MSEC \div POTS_EVAL_MSEC
                   THEN [q EXCEPT !.pots_state_count = c, !.pots_state = "ON_HOOK",
                                  !.pots_saw_hook_state_change = TRUE]
                   ELSE [q EXCEPT !.pots_state_count = c]

\* variant: the end of the call is declared two evaluations early
potsEvalPhoneState_Early(p) ==
  LET q == potsPhoneStateSwitch(p)
      r == IF q.pots_state = "ON_HOOK_PROVISIONAL"
              /\ q.pots_state_count >= (POTS_ON_HOOK_DETECT_MSEC \div POTS_EVAL_MSEC) - 2
             THEN [q EXCEPT !.pots_state = "ON_HOOK", !.pots_saw_hook_state_change = TRUE]
             ELSE q
  IN IF r.pots_saw_hook_state_change
       THEN IF r.pots_state = "ON_HOOK"
              THEN potsNotify(r, "app", "POTS_ON_HOOK")
              ELSE potsNotify(r, "app", "POTS_OFF_HOOK")
       ELSE r

potsEvalPhoneState(p) ==
  LET q == potsPhoneStateSwitch(p)
  IN IF q.pots_saw_hook_state_change
       THEN IF q.pots_state = "ON_HOOK"
              THEN potsNotify(q, "app", "POTS_ON_HOOK")
              ELSE potsNotify(q, "app", "POTS_OFF_HOOK")
       ELSE q

\* _potsGetRingPulseCount giving the ON count for both portions
potsGetRingPulseCount_Half(p, on_portion) ==
  ((1000 \div potsInfo(p).freq) \div 2) \div POTS_EVAL_MSEC

\* _potsGetRingPulseCount(on_portion)
potsGetRingPulseCount(p, on_portion) ==
  LET ring_pulse_period_msec == 1000 \div potsInfo(p).freq
      ring_on_eval_counts == (ring_pulse_period_msec \div 2) \div POTS_EVAL_MSEC
  IN IF on_portion
       THEN ring_on_eval_counts
       ELSE (ring_pulse_period_msec - ring_on_eval_counts * POTS_EVAL_MSEC)
              \div POTS_EVAL_MSEC

\* _potsStartRing(is_rp_as)
potsStartRing(p, is_rp_as) ==
  [p EXCEPT
     !.pots_num_ring_steps =
        IF is_rp_as THEN 1 ELSE potsInfo(p).num_cadence_pairs * 2,
     !.pots_ring_period_count =
        IF is_rp_as THEN PotsMsec(potsInfo(p).rp_as_msec)
        ELSE PotsMsec(potsInfo(p).cadence_pairs[1]),
     !.pots_ring_pulse_count = potsGetRingPulseCount(p, TRUE),
     !.pots_ring_step = 0,
     !.pots_ring_state = "RING_PULSE_ON",
     !.pots_ring_num = @ + 1,
     !.line_rm = TRUE,
     !.line_reverse = TRUE,
     !.ring_started = IF is_rp_as THEN "rp_as" ELSE "normal",
     !.rings_in_call = IF is_rp_as THEN @ ELSE @ + 1,
     !.ring_start_cid = p.pots_cid_state,
     !.ring_start_tone = p.pots_tone_state,
     !.ring_start_post = p.cid_post_done,
     !.ring_start_msg = p.cid_msg_done]

\* _potsEndRing without _potsLineRingMode(false)
potsEndRing_KeepRingMode(p) ==
  LET q == [p EXCEPT !.pots_ring_state = "RING_IDLE", !.line_reverse = FALSE]
  IN IF q.pots_ring_num = 1 /\ potsCidEnabled(q) /\ ~potsInfo(q).before_ring
       THEN [q EXCEPT !.pots_trigger_cid = TRUE]
       ELSE q

\* _potsEndRing
potsEndRing(p) ==
  LET q == [p EXCEPT !.pots_ring_state = "RING_IDLE",
                     !.line_reverse = FALSE, !.line_rm = FALSE]
  IN IF q.pots_ring_num = 1 /\ potsCidEnabled(q) /\ ~potsInfo(q).before_ring
       THEN [q EXCEPT !.pots_trigger_cid = TRUE]
       ELSE q

\* variant: going off-hook is ignored by the ring generator
potsRingerOffHook_Ignore(p) == p

\* _potsEvalRinger, first statement: off-hook ends the ring
potsRingerOffHook(p) ==
  IF p.pots_state = "OFF_HOOK"
    THEN potsResetRingNum(
           IF p.pots_ring_state # "RING_IDLE"
             THEN potsEndRing([p EXCEPT !.ring_aborted = p.pots_ring_state])
             ELSE p)
    ELSE p

\* _potsEvalRinger, the switch on pots_ring_state
potsRingerSwitch(p) ==
  CASE p.pots_ring_state = "RING_IDLE" ->
         IF p.pots_state = "ON_HOOK"
           THEN IF p.pots_trigger_pots_ring
                  THEN potsStartRing([p EXCEPT !.pots_trigger_pots_ring = FALSE], FALSE)
                ELSE IF p.pots_trigger_cid_ring
                  THEN potsStartRing([p EXCEPT !.pots_trigger_cid_ring = FALSE], TRUE)
                ELSE p
           ELSE [p EXCEPT !.pots_trigger_pots_ring = FALSE,
                          !.pots_trigger_cid_ring = FALSE]
    [] p.pots_ring_state = "RING_PULSE_ON" ->
         LET q == [p EXCEPT !.pots_ring_period_count = @ - 1,
                            !.pots_ring_pulse_count = @ - 1]
         IN IF q.pots_ring_pulse_count <= 0
              THEN [q EXCEPT !.pots_ring_state = "RING_PULSE_OFF",
                             !.pots_ring_pulse_count = potsGetRingPulseCount(q, FALSE),
                             !.line_reverse = FALSE]
              ELSE q
    [] p.pots_ring_state = "RING_PULSE_OFF" ->
         LET q == [p EXCEPT !.pots_ring_period_count = @ - 1,
                            !.pots_ring_pulse_count = @ - 1]
         IN IF q.pots_ring_period_count <= 0 \/ q.pots_ring_pulse_count <= 0
              THEN IF q.pots_ring_period_count <= 0
                     THEN LET r == [q EXCEPT !.pots_ring_step = @ + 1]
                          IN IF r.pots_ring_step >= r.pots_num_ring_steps
                               THEN potsEndRing(r)
                               ELSE [r EXCEPT
                                       !.pots_ring_state = "RING_STEP_WAIT",
                                       !.pots_ring_period_count =
                                          PotsMsec(potsInfo(r).cadence_pairs[r.pots_ring_step + 1]),
                                       !.line_rm = FALSE]
                     ELSE [q EXCEPT !.pots_ring_state = "RING_PULSE_ON",
                                    !.pots_ring_pulse_count = potsGetRingPulseCount(q, TRUE),
                                    !.line_reverse = TRUE]
              ELSE q
    [] p.pots_ring_state = "RING_STEP_WAIT" ->
         LET q == [p EXCEPT !.pots_ring_period_count = @ - 1]
         IN IF q.pots_ring_period_count <= 0
              THEN LET r == [q EXCEPT !.pots_ring_step = @ + 1]
                   IN IF r.pots_ring_step >= r.pots_num_ring_steps
                        THEN potsEndRing(r)
                        ELSE [r EXCEPT
                                !.pots_ring_state = "RING_PULSE_ON",
                                !.pots_ring_period_count =
                                   PotsMsec(potsInfo(r).cadence_pairs[r.pots_ring_step + 1]),
                                !.pots_ring_pulse_count = potsGetRingPulseCount(r, TRUE),
                                !.line_rm = TRUE]
              ELSE q

potsEvalRinger(p) == potsRingerSwitch(potsRingerOffHook(p))

\* _potsEvalDtmfDetect with _potsDtmfCallback: dtmf is the digit the detector
\* reports in this evaluation, " " for none
potsEvalDtmfDetect(p, dtmf) ==
  IF p.pots_tone_state \in {"TONE_DIAL", "TONE_DIAL_QUIET"}
    THEN [p EXCEPT !.dtmf_fed = TRUE,
                   !.pots_dial_last_dtmf_digit = IF dtmf # " " THEN dtmf ELSE @]
    ELSE [p EXCEPT !.dtmf_fed = FALSE]

\* '0' + rotary_map[pulse_count - 1]
potsRotaryDigit(p) ==
  LET n == IF p.pots_dial_pulse_count > 10 THEN 10 ELSE p.pots_dial_pulse_count
      d == potsInfo(p).rotary_map[n]
  IN <<"0", "1", "2", "3", "4", "5", "6", "7", "8", "9">>[d + 1]

\* _potsEvalDialer(hookChange); the result is left in digit_dialed
potsEvalDialer(p) ==
  LET q == [p EXCEPT !.digit_dialed = FALSE, !.report_src = "none"]
  IN CASE q.pots_dial_state = "DIAL_IDLE" ->
            IF q.pots_state # "ON_HOOK"
              THEN IF q.hook_changed /\ ~q.pots_cur_off_hook
                     THEN [q EXCEPT !.pots_dial_state = "DIAL_BREAK",
                                    !.pots_dial_pulse_count = 0,
                                    !.pots_dial_period_count = 0]
                   ELSE IF q.pots_dial_last_dtmf_digit # " "
                     THEN [q EXCEPT !.digit_dialed = TRUE, !.report_src = "dtmf",
                                    !.pots_dial_cur_digit = q.pots_dial_last_dtmf_digit,
                                    !.pots_dial_last_dtmf_digit = " "]
                   ELSE q
              ELSE q
       [] q.pots_dial_state = "DIAL_BREAK" ->
            LET r == [q EXCEPT !.pots_dial_period_count = @ + 1]
            IN IF r.pots_dial_period_count > POTS_ROT_BREAK_MSEC \div POTS_EVAL_MSEC
                 THEN [r EXCEPT !.pots_dial_state = "DIAL_IDLE"]
               ELSE IF r.hook_changed /\ r.pots_cur_off_hook
                 THEN [r EXCEPT !.pots_dial_pulse_count = IF @ < 10 THEN @ + 1 ELSE @,
                                !.pots_dial_state = "DIAL_MAKE",
                                !.pots_dial_period_count = 0]
               ELSE r
       [] q.pots_dial_state = "DIAL_MAKE" ->
            LET r == [q EXCEPT !.pots_dial_period_count = @ + 1]
            IN IF r.pots_dial_period_count > POTS_ROT_MAKE_MSEC \div POTS_EVAL_MSEC
                 THEN [r EXCEPT !.digit_dialed = TRUE, !.report_src = "rotary",
                                !.pots_dial_cur_digit = potsRotaryDigit(r),
                                !.pots_dial_state = "DIAL_IDLE"]
               ELSE IF r.hook_changed /\ ~r.pots_cur_off_hook
                 THEN [r EXCEPT !.pots_dial_state = "DIAL_BREAK",
                                !.pots_dial_period_count = 0]
               ELSE r

\* _potsSetAudioOutput(s), called with the old tone state still in place
potsSetAudioOutput(p, s) ==
  LET off_hook_count == PotsOffHookCount(potsInfo(p).off_hook_timeout)
  IN CASE s = "TONE_IDLE" ->
            LET q == potsNotifyAudio(p, "DISABLE")
            IN IF p.pots_tone_state = "TONE_OFF_HOOK"
                 THEN potsNotify(q, "app", "POTS_NORM_SPK_GAIN")
                 ELSE q
       [] s = "TONE_VOICE" ->
            IF p.pots_call_audio_16k
              THEN potsNotifyAudio(p, "EN_VOICE_16")
              ELSE potsNotifyAudio(p, "EN_VOICE_8")
       [] s = "TONE_VOICE_WAIT_HANGUP" ->
            [potsNotifyAudio(p, "DISABLE") EXCEPT
               !.pots_tone_timer_count = off_hook_count]
       [] s = "TONE_DIAL" ->
            [potsNotifyAudio(p, "EN_TONE") EXCEPT
               !.pots_dial_last_dtmf_digit = " ",
               !.pots_tone_timer_count = off_hook_count]
       [] s = "TONE_DIAL_QUIET" ->
            [p EXCEPT !.pots_tone_timer_count = off_hook_count]
       [] s = "TONE_DTMF" ->
            [potsNotifyAudio(p, "EN_TONE") EXCEPT
               !.burst_polls = 0,
               !.pots_tone_timer_count = off_hook_count]
       [] s = "TONE_DTMF_FLUSH" ->
            [p EXCEPT !.pots_tone_timer_count = POTS_TONE_FLUSH_MSEC \div POTS_EVAL_MSEC]
       [] s = "TONE_NO_SERVICE" ->
            potsNotifyAudio(p, "EN_TONE")
       [] s = "TONE_OFF_HOOK" ->
            potsNotifyAudio(potsNotify(p, "app", "POTS_MAX_SPK_GAIN"), "EN_TONE")
       [] s = "TONE_CID" ->
            potsNotifyAudio(potsNotify(p, "app", "POTS_MAX_SPK_GAIN"), "EN_TONE")
       [] s = "TONE_CID_FLUSH" ->
            [potsNotify(p, "app", "POTS_NORM_SPK_GAIN") EXCEPT
               !.pots_tone_timer_count = POTS_CID_FLUSH_MSEC \div POTS_EVAL_MSEC]

\* _potsSetToneState giving dial tone where the re-order tone is asked for
potsSetToneState_DialForReorder(p, ns) ==
  IF ns = "TONE_NO_SERVICE"
    THEN [potsSetAudioOutput(p, "TONE_DIAL") EXCEPT !.pots_tone_state = "TONE_DIAL"]
    ELSE [potsSetAudioOutput(p, ns) EXCEPT !.pots_tone_state = ns]

\* _potsSetToneState(ns)
potsSetToneState(p, ns) ==
  [potsSetAudioOutput(p, ns) EXCEPT !.pots_tone_state = ns]

\* _potsSetupCID: false when no field was added to the message, which is the
\* case of the formats DTMF3 and DTMF4 without a caller number
potsSetupCID_Always(p) == TRUE

potsSetupCID(p) ==
  LET valid_cid == ~p.cid_len_zero
  IN IF potsInfo(p).cid_type \in {"DTMF3", "DTMF4"} THEN valid_cid ELSE TRUE

\* _potsEvalCID, first statement: Caller ID stops when the phone is not on-hook
potsCidOffHook(p) ==
  IF p.pots_state # "ON_HOOK"
    THEN LET q == [p EXCEPT !.pots_trigger_cid = FALSE]
         IN IF q.pots_cid_state # "CID_IDLE"
              THEN [q EXCEPT !.pots_cid_state = "CID_IDLE", !.line_reverse = FALSE]
              ELSE q
    ELSE p

\* history: a Caller ID sequence begins
potsCidBegin(p) ==
  [p EXCEPT !.cid_started = TRUE, !.cid_post_done = FALSE, !.cid_msg_done = FALSE]

\* _potsEvalCID: _potsSetToneState(TONE_CID); pots_cid_state = CID_MSG
potsCidMessage(p) ==
  [potsSetToneState(p, "TONE_CID") EXCEPT !.pots_cid_state = "CID_MSG",
                                          !.cids_in_call = @ + 1]

\* _potsEvalCID, the switch on pots_cid_state
potsCidSwitch(p) ==
  CASE p.pots_cid_state = "CID_IDLE" ->
         IF p.pots_state = "ON_HOOK" /\ p.pots_trigger_cid
           THEN LET q == [p EXCEPT !.pots_trigger_cid = FALSE]
                    b == potsCidBegin(q)
                IN IF potsSetupCID(q)
                     THEN IF potsInfo(q).before_ring
                            THEN IF potsInfo(q).en_lr
                                   THEN [b EXCEPT
                                           !.line_reverse = TRUE,
                                           !.pots_cid_wait_count = PotsMsec(potsInfo(q).pre_msec),
                                           !.pots_cid_state = "CID_PRE_MSG_WAIT"]
                                 ELSE IF potsInfo(q).en_rp_as
                                   THEN [b EXCEPT
                                           !.pots_trigger_cid_ring = TRUE,
                                           !.pots_cid_state = "CID_RP_AS"]
                                 ELSE potsCidMessage(b)
                            ELSE potsCidMessage(b)
                     ELSE [q EXCEPT
                             !.cid_skipped = TRUE,
                             !.pots_trigger_pots_ring =
                                IF potsInfo(q).before_ring THEN TRUE ELSE @]
           ELSE p
    [] p.pots_cid_state = "CID_RP_AS" ->
         IF p.pots_ring_state = "RING_IDLE"
           THEN [p EXCEPT !.pots_cid_wait_count = PotsMsec(potsInfo(p).pre_msec),
                          !.pots_cid_state = "CID_PRE_MSG_WAIT"]
           ELSE p
    [] p.pots_cid_state = "CID_PRE_MSG_WAIT" ->
         LET q == [p EXCEPT !.pots_cid_wait_count = @ - 1]
         IN IF q.pots_cid_wait_count <= 0
              THEN potsCidMessage(q)
              ELSE q
    [] p.pots_cid_state = "CID_MSG" ->
         IF p.pots_tone_state # "TONE_CID"
           THEN [p EXCEPT !.pots_cid_wait_count = PotsMsec(potsInfo(p).post_msec),
                          !.pots_cid_state = "CID_POST_MSG_WAIT"]
           ELSE p
    [] p.pots_cid_state = "CID_POST_MSG_WAIT" ->
         LET q == [p EXCEPT !.pots_cid_wait_count = @ - 1]
         IN IF q.pots_cid_wait_count <= 0
              THEN [q EXCEPT
                      !.line_reverse = IF potsInfo(q).en_lr THEN FALSE ELSE @,
                      !.pots_trigger_pots_ring =
                         IF potsInfo(q).before_ring THEN TRUE ELSE @,
                      !.pots_cid_state = "CID_IDLE",
                      !.cid_post_done = TRUE]
              ELSE q

potsEvalCID(p) == potsCidSwitch(potsCidOffHook(p))

\* _potsToneTimerExpired: the count after the call, and its result
potsToneTimerTick(p) ==
  IF p.pots_tone_timer_count # 0 THEN [p EXCEPT !.pots_tone_timer_count = @ - 1] ELSE p

potsToneTimerExpired(p) ==
  p.pots_tone_timer_count # 0 /\ p.pots_tone_timer_count - 1 = 0

\* the timer of a waiting state expiring only when it is started at one
potsToneOnTimer_NoTick(p, ns) ==
  IF potsToneTimerExpired(p)
    THEN potsSetToneState(potsToneTimerTick(p), ns)
    ELSE p

\* a state that only waits for the timer
potsToneOnTimer(p, ns) ==
  IF potsToneTimerExpired(p)
    THEN potsSetToneState(potsToneTimerTick(p), ns)
    ELSE potsToneTimerTick(p)

\* _potsEvalToneState(potsDigitDialed, appDigitDialed); gen is the result of
\* _potsEvalToneGen for a Caller ID message or a DTMF digit: FALSE when the
\* generator has no more audio
potsEvalToneState(p, gen) ==
  LET potsDigitDialed == p.digit_dialed
      appDigitDialed == p.pots_notify_ext_digit_dialed
      st == p.pots_state
  IN CASE p.pots_tone_state = "TONE_IDLE" ->
            IF st = "OFF_HOOK"
              THEN IF p.pots_has_call_audio THEN potsSetToneState(p, "TONE_VOICE")
                   ELSE IF p.pots_in_service THEN potsSetToneState(p, "TONE_DIAL")
                   ELSE potsSetToneState(p, "TONE_NO_SERVICE")
              ELSE p
       [] p.pots_tone_state = "TONE_VOICE" ->
            IF ~p.pots_has_call_audio /\ st = "OFF_HOOK"
              THEN potsSetToneState(p, "TONE_VOICE_WAIT_HANGUP")
            ELSE IF st = "ON_HOOK" THEN potsSetToneState(p, "TONE_IDLE")
            ELSE p
       [] p.pots_tone_state = "TONE_VOICE_WAIT_HANGUP" ->
            IF st = "ON_HOOK" THEN potsSetToneState(p, "TONE_IDLE")
            ELSE IF p.pots_has_call_audio THEN potsSetToneState(p, "TONE_VOICE")
            ELSE potsToneOnTimer(p, "TONE_OFF_HOOK")
       [] p.pots_tone_state = "TONE_DIAL" ->
            IF ~p.pots_in_service THEN potsSetToneState(p, "TONE_NO_SERVICE")
            ELSE IF st = "ON_HOOK" \/ potsDigitDialed
              THEN potsSetToneState(p, "TONE_DIAL_QUIET")
            ELSE IF st = "OFF_HOOK" /\ appDigitDialed
              THEN potsSetToneState(p, "TONE_DTMF")
            ELSE IF p.pots_has_call_audio THEN potsSetToneState(p, "TONE_VOICE")
            ELSE potsToneOnTimer(p, "TONE_OFF_HOOK")
       [] p.pots_tone_state = "TONE_DIAL_QUIET" ->
            IF p.pots_has_call_audio THEN potsSetToneState(p, "TONE_VOICE")
            ELSE IF st = "ON_HOOK" THEN potsSetToneState(p, "TONE_IDLE")
            ELSE IF st = "OFF_HOOK" /\ appDigitDialed
              THEN potsSetToneState(p, "TONE_DTMF")
            ELSE potsToneOnTimer(p, "TONE_OFF_HOOK")
       [] p.pots_tone_state = "TONE_DTMF" ->
            IF p.pots_has_call_audio THEN potsSetToneState(p, "TONE_VOICE")
            ELSE IF st = "ON_HOOK" THEN potsSetToneState(p, "TONE_IDLE")
            ELSE IF potsToneTimerExpired(p)
              THEN potsSetToneState(potsToneTimerTick(p), "TONE_OFF_HOOK")
            ELSE IF ~gen
              THEN potsSetToneState(potsToneTimerTick(p), "TONE_DTMF_FLUSH")
            ELSE [potsToneTimerTick(p) EXCEPT !.burst_polls = @ + 1]
       [] p.pots_tone_state = "TONE_DTMF_FLUSH" ->
            IF st = "OFF_HOOK" /\ appDigitDialed
              THEN potsSetToneState(p, "TONE_DTMF")
            ELSE potsToneOnTimer(p, "TONE_DIAL_QUIET")
       [] p.pots_tone_state = "TONE_NO_SERVICE" ->
            IF p.pots_in_service THEN potsSetToneState(p, "TONE_DIAL")
            ELSE IF st = "ON_HOOK" THEN potsSetToneState(p, "TONE_IDLE")
            ELSE p
       [] p.pots_tone_state = "TONE_OFF_HOOK" ->
            IF st = "ON_HOOK" THEN potsSetToneState(p, "TONE_IDLE") ELSE p
       [] p.pots_tone_state = "TONE_CID" ->
            IF st = "ON_HOOK"
              THEN IF ~gen
                     THEN [potsSetToneState(p, "TONE_CID_FLUSH") EXCEPT !.cid_msg_done = TRUE]
                     ELSE p
              ELSE potsSetToneState(p, "TONE_CID_FLUSH")
       [] p.pots_tone_state = "TONE_CID_FLUSH" ->
            potsToneOnTimer(p, "TONE_IDLE")

\* _potsSendDialedDigit(pots_dial_cur_digit) when a digit was dialed, then
\* the ext-digit flag is cleared
potsLoopEnd(p) ==
  [(IF p.digit_dialed THEN potsNotify(p, "app", "POTS_DIGIT_DIALED") ELSE p)
     EXCEPT !.pots_notify_ext_digit_dialed = FALSE]

\* what the properties remember of the evaluation is reset at its start
potsLoopStart(p) ==
  [p EXCEPT !.sent = {}, !.ring_started = "none", !.ring_start_cid = "none",
            !.ring_start_tone = "none", !.ring_start_post = FALSE,
            !.ring_start_msg = FALSE, !.ring_aborted = "none",
            !.cid_skipped = FALSE,
            !.cid_started = FALSE]

\* one pass of the loop of pots_task: nv the notification value read, cc the
\* stored country code, level the hook switch input, dtmf the detector's
\* report, gen the tone generator's result
potsTaskLoop(p, nv, cc, level, dtmf, gen) ==
  potsLoopEnd(
   potsEvalToneState(
    potsEvalCID(
     potsEvalDialer(
      potsEvalRinger(
       potsEvalDtmfDetect(
        potsEvalPhoneState(
         potsEvalHook(
          potsHandleNotifications(potsLoopStart(p), nv, cc),
          level)),
        dtmf)))),
    gen))

(***************************************************************************)
(* app_task.c                                                              *)
(***************************************************************************)
\* xTaskNotify(task_handle_<t>, <bit>, eSetBits) issued by the orchestrator:
\* collected in the field "sent" during one pass of the loop
appNotify(a, t, bit) == [a EXCEPT !.sent = @ \cup {<<t, bit>>}]

\* a value handed to another task through its setter (bt_set_outgoing_number,
\* bt_set_dtmf_digit, pots_set_app_dialed_digit, gui_set_new_mic_gain,
\* gui_set_new_spk_gain): listed in the field "mail" during one pass
appSet(a, setter, v) == [a EXCEPT !.mail = Append(@, <<setter, v>>)]

\* the module's static variables after their initialisers
appInit ==
  [state |-> "DISCONNECTED",
   bt_in_service |-> FALSE, bt_in_call |-> FALSE,
   bt_audio_connected |-> FALSE, pots_off_hook |-> FALSE,
   cid_valid |-> FALSE, cid_num |-> "",
   call_received_timer |-> 0, ring_count |-> 0,
   notify_dial_btn_pressed |-> FALSE, notify_bt_ring_indication |-> FALSE,
   last_dial_digit_from_pots |-> FALSE,
   new_gui_digit |-> "", new_pots_digit |-> "",
   \* dialing_num[0 .. dialing_num_valid-1] as a sequence; dialing_nul:
   \* dialing_num[dialing_num_valid] holds the null terminator
   dialing_num |-> <<>>, dialing_nul |-> TRUE, dialing_pots_digit_timer |-> 0,
   new_mic_gain |-> "nom", new_spk_gain |-> "nom",
   codec_mic_gain |-> "nom", codec_spk_gain |-> "nom",
   ps_mic_gain |-> "nom", ps_spk_gain |-> "nom",
   sent |-> {}, mail |-> <<>>,
   \* history: the one-shot flags as the last evaluation saw them
   eval_dial_btn |-> FALSE, eval_ring |-> FALSE,
   \* history: consecutive evaluations that began and ended in CALL_RECEIVED
   \* and saw no ring indication
   ring_less_evals |-> 0,
   \* history of the number being dialled, kept on the side of the user:
   \*   dialed      the digits entered while DIALING, oldest first, each with
   \*               its origin ("pots" or "gui"); a deletion removes the last
   \*   raced       a phone digit and a GUI key were read in one pass although
   \*               the GUI key had come first
   \*   activity    the last pass read a digit or a deletion
   \*   idle_evals  evaluations of DIALING, the number not empty, since the
   \*               last digit or deletion (the one that read it included)
   dialed |-> <<>>, raced |-> FALSE, activity |-> FALSE, idle_evals |-> 0]

appCanInitiateAssistantCall(a) ==
  Len(a.dialing_num) = 1 /\ a.dialing_num[1] = "0"

\* _appInvalidateDialingNum: dialing_num_valid = 0, the array is not written
appInvalidateDialingNum(a) ==
  [a EXCEPT !.dialing_num = <<>>,
            !.dialing_nul = IF Len(a.dialing_num) = 0 THEN @ ELSE FALSE,
            !.dialed = <<>>, !.raced = FALSE]

appInvalidateCID(a) == [a EXCEPT !.cid_num = ""]

\* _appSetState: the entry actions of the new state, then app_state = st
appSetState(a, st) ==
  LET b ==
        CASE st = "DISCONNECTED" ->
               appNotify(a, "pots", "OUT_OF_SERVICE")
          [] st = "CONNECTED_IDLE" ->
               LET a1 == appNotify(a, "pots", "IN_SERVICE")
                   a2 == [appInvalidateCID(a1) EXCEPT !.cid_valid = FALSE,
                                                      !.ring_count = 0]
                   a3 == appInvalidateDialingNum(a2)
               IN  appNotify(a3, "gui", "PH_NUM_UPDATE")
          [] st = "CALL_RECEIVED" ->
               [appNotify(a, "gcore", "ACTIVITY") EXCEPT !.call_received_timer = 0]
          [] st = "CALL_WAIT_ACTIVE" ->
               appNotify(a, "bt", "ANSWER_CALL")
          [] st = "DIALING" ->
               [a EXCEPT !.dialing_pots_digit_timer = 0]
          [] st = "CALL_INITIATED" ->
               IF appCanInitiateAssistantCall(a)
                 THEN appNotify(a, "bt", "DIAL_OPER")
                 ELSE appNotify(appSet(a, "bt_set_outgoing_number", a.dialing_num),
                                "bt", "DIAL_NUM")
          [] st = "CALL_WAIT_END" ->
               appNotify(a, "bt", "HANGUP_CALL")
          [] OTHER -> a
  IN  appNotify([b EXCEPT !.state = st], "gui", "STATUS_UPDATE")

\* variant: a digit equal to the last one of the number is not entered again
appPushNewDialedDigit_Merge(a, c) ==
  LET a1 == IF a.state \in {"DIALING", "CALL_ACTIVE", "CALL_ACTIVE_VOICE"}
               /\ Len(a.dialing_num) < APP_MAX_DIALED_DIGITS
               /\ (Len(a.dialing_num) = 0 \/ a.dialing_num[Len(a.dialing_num)] # c)
              THEN [appNotify(a, "gui", "PH_NUM_UPDATE")
                      EXCEPT !.dialing_num = Append(@, c),
                             !.dialing_nul = TRUE,
                             !.dialing_pots_digit_timer = 0]
              ELSE a
  IN  IF a1.state \in {"CALL_ACTIVE", "CALL_ACTIVE_VOICE"}
        THEN appNotify(appSet(a1, "bt_set_dtmf_digit", c), "bt", "DIAL_DTMF")
        ELSE a1

\* _appPushNewDialedDigit
appPushNewDialedDigit(a, c) ==
  LET a1 == IF a.state \in {"DIALING", "CALL_ACTIVE", "CALL_ACTIVE_VOICE"}
               /\ Len(a.dialing_num) < APP_MAX_DIALED_DIGITS
              THEN [appNotify(a, "gui", "PH_NUM_UPDATE")
                      EXCEPT !.dialing_num = Append(@, c),
                             !.dialing_nul = TRUE,
                             !.dialing_pots_digit_timer = 0]
              ELSE a
  IN  IF a1.state \in {"CALL_ACTIVE", "CALL_ACTIVE_VOICE"}
        THEN appNotify(appSet(a1, "bt_set_dtmf_digit", c), "bt", "DIAL_DTMF")
        ELSE a1

\* _appHandleNotifications, one operator for each bit it tests; nv is the
\* word returned by xTaskNotifyWait(0x00, 0xFFFFFFFF, &notification_value, 0)
appOnPotsOnHook(a, nv) ==
  IF Notification(nv, "POTS_ON_HOOK") THEN [a EXCEPT !.pots_off_hook = FALSE] ELSE a

appOnPotsOffHook(a, nv) ==
  IF Notification(nv, "POTS_OFF_HOOK") THEN [a EXCEPT !.pots_off_hook = TRUE] ELSE a

appOnPotsDigitDialed(a, nv) ==
  IF Notification(nv, "POTS_DIGIT_DIALED")
    THEN [appPushNewDialedDigit(a, a.new_pots_digit)
            EXCEPT !.last_dial_digit_from_pots = TRUE]
    ELSE a

\* the digit is also handed to pots_task (local DTMF feedback) while DIALING
appGuiDigitToPots(a) ==
  IF a.state = "DIALING"
    THEN appNotify(appSet(a, "pots_set_app_dialed_digit", a.new_gui_digit),
                   "pots", "EXT_DIAL_DIGIT")
    ELSE a

appOnGuiDigitDialed(a, nv) ==
  IF Notification(nv, "GUI_DIGIT_DIALED")
    THEN appGuiDigitToPots([appPushNewDialedDigit(a, a.new_gui_digit)
                              EXCEPT !.last_dial_digit_from_pots = FALSE])
    ELSE a

appOnGuiDigitDeleted(a, nv) ==
  IF Notification(nv, "GUI_DIGIT_DELETED")
     /\ a.state = "DIALING" /\ Len(a.dialing_num) > 0
    THEN appNotify([a EXCEPT !.dialing_num = SubSeq(@, 1, Len(@) - 1),
                             !.dialing_nul = TRUE,
                             !.last_dial_digit_from_pots = FALSE],
                   "gui", "PH_NUM_UPDATE")
    ELSE a

appOnGuiDialBtn(a, nv) ==
  IF Notification(nv, "GUI_DIAL_BTN_PRESSED")
    THEN [a EXCEPT !.notify_dial_btn_pressed = TRUE] ELSE a

appOnBtInService(a, nv) ==
  IF Notification(nv, "BT_IN_SERVICE") THEN [a EXCEPT !.bt_in_service = TRUE] ELSE a

appOnBtOutOfService(a, nv) ==
  IF Notification(nv, "BT_OUT_OF_SERVICE") THEN [a EXCEPT !.bt_in_service = FALSE] ELSE a

appOnBtRing(a, nv) ==
  IF Notification(nv, "BT_RING")
    THEN [a EXCEPT !.notify_bt_ring_indication = TRUE, !.ring_count = @ + 1]
    ELSE a

appOnBtCallStarted(a, nv) ==
  IF Notification(nv, "BT_CALL_STARTED") THEN [a EXCEPT !.bt_in_call = TRUE] ELSE a

appOnBtCallEnded(a, nv) ==
  IF Notification(nv, "BT_CALL_ENDED") THEN [a EXCEPT !.bt_in_call = FALSE] ELSE a

appOnBtCidAvailable(a, nv) ==
  IF Notification(nv, "BT_CID_AVAILABLE")
    THEN appNotify(a, "gui", "CID_NUM_UPDATE") ELSE a

appOnBtAudioStart(a, nv) ==
  IF Notification(nv, "BT_AUDIO_START")
    THEN [a EXCEPT !.bt_audio_connected = TRUE] ELSE a

appOnBtAudioEnded(a, nv) ==
  IF Notification(nv, "BT_AUDIO_ENDED")
    THEN [a EXCEPT !.bt_audio_connected = FALSE] ELSE a

appOnNewGuiMicGain(a, nv) ==
  IF Notification(nv, "NEW_GUI_MIC_GAIN")
    THEN appNotify([a EXCEPT !.new_mic_gain = a.ps_mic_gain,
                             !.codec_mic_gain = a.ps_mic_gain],
                   "bt", "NEW_MIC_GAIN")
    ELSE a

appOnNewGuiSpkGain(a, nv) ==
  IF Notification(nv, "NEW_GUI_SPK_GAIN")
    THEN appNotify([a EXCEPT !.new_spk_gain = a.ps_spk_gain,
                             !.codec_spk_gain = a.ps_spk_gain],
                   "bt", "NEW_SPK_GAIN")
    ELSE a

\* variant: the change of the remote device is passed on to bt_task as well
appOnNewBtMicGain_Echo(a, nv) ==
  IF Notification(nv, "NEW_BT_MIC_GAIN")
    THEN appNotify(appNotify(appSet([a EXCEPT !.codec_mic_gain = a.new_mic_gain],
                                    "gui_set_new_mic_gain", a.new_mic_gain),
                             "gui", "UPDATE_MIC_GAIN"),
                   "bt", "NEW_MIC_GAIN")
    ELSE a

appOnNewBtMicGain(a, nv) ==
  IF Notification(nv, "NEW_BT_MIC_GAIN")
    THEN appNotify(appSet([a EXCEPT !.codec_mic_gain = a.new_mic_gain],
                          "gui_set_new_mic_gain", a.new_mic_gain),
                   "gui", "UPDATE_MIC_GAIN")
    ELSE a

appOnNewBtSpkGain(a, nv) ==
  IF Notification(nv, "NEW_BT_SPK_GAIN")
    THEN appNotify(appSet([a EXCEPT !.codec_spk_gain = a.new_spk_gain],
                          "gui_set_new_spk_gain", a.new_spk_gain),
                   "gui", "UPDATE_SPK_GAIN")
    ELSE a

appOnPotsMaxSpkGain(a, nv) ==
  IF Notification(nv, "POTS_MAX_SPK_GAIN")
    THEN [a EXCEPT !.codec_spk_gain = GAIN_APP_SPK_MAX_DB] ELSE a

appOnPotsNormSpkGain(a, nv) ==
  IF Notification(nv, "POTS_NORM_SPK_GAIN")
    THEN [a EXCEPT !.new_spk_gain = a.ps_spk_gain,
                   !.codec_spk_gain = a.ps_spk_gain]
    ELSE a

\* _appHandleNotifications: the bits are handled in the order of the source
appHandleNotifications(a, nv) ==
  appOnPotsNormSpkGain(appOnPotsMaxSpkGain(
  appOnNewBtSpkGain(appOnNewBtMicGain(
  appOnNewGuiSpkGain(appOnNewGuiMicGain(
  appOnBtAudioEnded(appOnBtAudioStart(
  appOnBtCidAvailable(
  appOnBtCallEnded(appOnBtCallStarted(
  appOnBtRing(
  appOnBtOutOfService(appOnBtInService(
  appOnGuiDialBtn(
  appOnGuiDigitDeleted(appOnGuiDigitDialed(appOnPotsDigitDialed(
  appOnPotsOffHook(appOnPotsOnHook(a, nv), nv),
  nv), nv), nv), nv), nv), nv), nv), nv), nv), nv), nv), nv), nv), nv), nv),
  nv), nv), nv)

\* the target of the three states that follow the audio connection:
\* CALL_ACTIVE_VOICE when the audio is routed here and the phone is off hook
appVoiceOrActive(a) ==
  IF a.bt_audio_connected /\ a.pots_off_hook THEN "CALL_ACTIVE_VOICE"
                                             ELSE "CALL_ACTIVE"

\* _appEvalState, case DISCONNECTED
appEvalDISCONNECTED(a) ==
  IF a.bt_in_service THEN appSetState(a, "CONNECTED_IDLE") ELSE a

\* variant: the off-hook test comes before the ring test
appEvalCONNECTED_IDLE_HookFirst(a) ==
  IF ~a.bt_in_service THEN appSetState(a, "DISCONNECTED")
  ELSE IF a.pots_off_hook
    THEN IF a.bt_audio_connected THEN appSetState(a, "CALL_ACTIVE_VOICE")
                                 ELSE appSetState(a, "DIALING")
  ELSE IF a.notify_bt_ring_indication THEN appSetState(a, "CALL_RECEIVED")
  ELSE a

\* _appEvalState, case CONNECTED_IDLE
appEvalCONNECTED_IDLE(a) ==
  IF ~a.bt_in_service THEN appSetState(a, "DISCONNECTED")
  ELSE IF a.notify_bt_ring_indication THEN appSetState(a, "CALL_RECEIVED")
  ELSE IF a.pots_off_hook
    THEN IF a.bt_audio_connected THEN appSetState(a, "CALL_ACTIVE_VOICE")
                                 ELSE appSetState(a, "DIALING")
  ELSE a

\* variant: a ring indication does not restart the ring time-out
appEvalCALL_RECEIVED_NoRestart(a) ==
  LET b == IF ~a.bt_in_service THEN appSetState(a, "DISCONNECTED")
           ELSE IF a.notify_dial_btn_pressed THEN appSetState(a, "CALL_WAIT_END")
           ELSE IF a.bt_in_call THEN appSetState(a, appVoiceOrActive(a))
           ELSE IF a.pots_off_hook THEN appSetState(a, "CALL_WAIT_ACTIVE")
           ELSE LET t == [a EXCEPT !.call_received_timer = @ + 1]
                IN  IF t.call_received_timer >= APP_LAST_RING_DETECT_COUNT
                      THEN appNotify(appSetState(t, "CONNECTED_IDLE"),
                                     "pots", "DONE_RINGING")
                      ELSE t
  IN  IF ~b.cid_valid /\ b.ring_count = 2
        THEN appNotify(b, "gui", "CID_NUM_UPDATE")
        ELSE b

\* _appEvalState, case CALL_RECEIVED
appEvalCALL_RECEIVED(a) ==
  LET b == IF ~a.bt_in_service THEN appSetState(a, "DISCONNECTED")
           ELSE IF a.notify_dial_btn_pressed THEN appSetState(a, "CALL_WAIT_END")
           ELSE IF a.bt_in_call THEN appSetState(a, appVoiceOrActive(a))
           ELSE IF a.pots_off_hook THEN appSetState(a, "CALL_WAIT_ACTIVE")
           ELSE IF a.notify_bt_ring_indication THEN appSetState(a, "CALL_RECEIVED")
           ELSE LET t == [a EXCEPT !.call_received_timer = @ + 1]
                IN  IF t.call_received_timer >= APP_LAST_RING_DETECT_COUNT
                      THEN appNotify(appSetState(t, "CONNECTED_IDLE"),
                                     "pots", "DONE_RINGING")
                      ELSE t
  IN  IF ~b.cid_valid /\ b.ring_count = 2
        THEN appNotify(b, "gui", "CID_NUM_UPDATE")
        ELSE b

\* _appEvalState, case CALL_WAIT_ACTIVE
appEvalCALL_WAIT_ACTIVE(a) ==
  IF ~a.bt_in_service THEN appSetState(a, "DISCONNECTED")
  ELSE IF ~a.pots_off_hook \/ a.notify_dial_btn_pressed
    THEN appSetState(a, "CALL_WAIT_END")
  ELSE IF a.bt_in_call THEN appSetState(a, appVoiceOrActive(a))
  ELSE a

\* variant: a number whose last digit came from the phone is dialled at once
appEvalDIALING_NoTimeout(a) ==
  IF ~a.bt_in_service THEN appSetState(a, "DISCONNECTED")
  ELSE IF ~a.pots_off_hook THEN appSetState(a, "CONNECTED_IDLE")
  ELSE IF a.notify_bt_ring_indication THEN appSetState(a, "CALL_RECEIVED")
  ELSE IF a.bt_audio_connected THEN appSetState(a, "CALL_ACTIVE_VOICE")
  ELSE IF Len(a.dialing_num) > 0
    THEN LET t == [a EXCEPT !.dialing_pots_digit_timer = @ + 1]
         IN  IF t.notify_dial_btn_pressed \/ t.last_dial_digit_from_pots
               THEN appSetState(t, "CALL_INITIATED")
               ELSE t
  ELSE a

\* _appEvalState, case DIALING
appEvalDIALING(a) ==
  IF ~a.bt_in_service THEN appSetState(a, "DISCONNECTED")
  ELSE IF ~a.pots_off_hook THEN appSetState(a, "CONNECTED_IDLE")
  ELSE IF a.notify_bt_ring_indication THEN appSetState(a, "CALL_RECEIVED")
  ELSE IF a.bt_audio_connected THEN appSetState(a, "CALL_ACTIVE_VOICE")
  ELSE IF Len(a.dialing_num) > 0
    THEN LET t == [a EXCEPT !.dialing_pots_digit_timer = @ + 1]
         IN  IF t.notify_dial_btn_pressed
                \/ (t.last_dial_digit_from_pots
                    /\ t.dialing_pots_digit_timer >= APP_LAST_DIGIT_2_DIAL_COUNT)
               THEN appSetState(t, "CALL_INITIATED")
               ELSE t
  ELSE a

\* _appEvalState, case CALL_INITIATED
appEvalCALL_INITIATED(a) ==
  IF ~a.bt_in_service THEN appSetState(a, "DISCONNECTED")
  ELSE IF a.bt_in_call THEN appSetState(a, appVoiceOrActive(a))
  ELSE IF a.notify_dial_btn_pressed \/ ~a.pots_off_hook
    THEN appSetState(a, "CALL_WAIT_END")
  ELSE a

\* _appEvalState, case CALL_ACTIVE.  The source reads
\*     if (!bt_in_service) {..} else if (notify_dial_btn_pressed) {..}
\*     if (!bt_in_call) {..} else if (bt_audio_connected && pots_off_hook) {..}
\* that is two statements: the second one runs after the first
appEvalCALL_ACTIVE(a) ==
  LET b == IF ~a.bt_in_service THEN appSetState(a, "DISCONNECTED")
           ELSE IF a.notify_dial_btn_pressed THEN appSetState(a, "CALL_WAIT_END")
           ELSE a
  IN  IF ~b.bt_in_call
        THEN IF b.pots_off_hook THEN appSetState(b, "CALL_WAIT_ONHOOK")
                                ELSE appSetState(b, "CONNECTED_IDLE")
      ELSE IF b.bt_audio_connected /\ b.pots_off_hook
        THEN appSetState(b, "CALL_ACTIVE_VOICE")
      ELSE b

\* _appEvalState, case CALL_ACTIVE_VOICE
appEvalCALL_ACTIVE_VOICE(a) ==
  IF ~a.bt_in_service THEN appSetState(a, "DISCONNECTED")
  ELSE IF a.notify_dial_btn_pressed \/ ~a.pots_off_hook
    THEN appSetState(a, "CALL_WAIT_END")
  ELSE IF ~a.bt_audio_connected
    THEN IF ~a.bt_in_call THEN appSetState(a, "CALL_WAIT_ONHOOK")
                          ELSE appSetState(a, "CALL_ACTIVE")
  ELSE a

\* variant: CALL_WAIT_END does not wait for the end of the call
appEvalCALL_WAIT_END_NoWait(a) ==
  IF ~a.bt_in_service THEN appSetState(a, "DISCONNECTED")
  ELSE IF a.bt_audio_connected /\ a.pots_off_hook
    THEN appSetState(a, "CALL_ACTIVE_VOICE")
  ELSE IF a.pots_off_hook THEN appSetState(a, "CALL_WAIT_ONHOOK")
  ELSE appSetState(a, "CONNECTED_IDLE")

\* _appEvalState, case CALL_WAIT_END
appEvalCALL_WAIT_END(a) ==
  IF ~a.bt_in_service THEN appSetState(a, "DISCONNECTED")
  ELSE IF a.bt_audio_connected /\ a.pots_off_hook
    THEN appSetState(a, "CALL_ACTIVE_VOICE")
  ELSE IF ~a.bt_in_call
    THEN IF a.pots_off_hook THEN appSetState(a, "CALL_WAIT_ONHOOK")
                            ELSE appSetState(a, "CONNECTED_IDLE")
  ELSE a

\* _appEvalState, case CALL_WAIT_ONHOOK
appEvalCALL_WAIT_ONHOOK(a) ==
  IF ~a.bt_in_service THEN appSetState(a, "DISCONNECTED")
  ELSE IF ~a.pots_off_hook THEN appSetState(a, "CONNECTED_IDLE")
  ELSE a

\* _appEvalState: one evaluation of the state machine, then the two
\* one-shot flags are cleared
appEvalState(a) ==
  LET b == CASE a.state = "DISCONNECTED" -> appEvalDISCONNECTED(a)
             [] a.state = "CONNECTED_IDLE" -> appEvalCONNECTED_IDLE(a)
             [] a.state = "CALL_RECEIVED" -> appEvalCALL_RECEIVED(a)
             [] a.state = "CALL_WAIT_ACTIVE" -> appEvalCALL_WAIT_ACTIVE(a)
             [] a.state = "DIALING" -> appEvalDIALING(a)
             [] a.state = "CALL_INITIATED" -> appEvalCALL_INITIATED(a)
             [] a.state = "CALL_ACTIVE" -> appEvalCALL_ACTIVE(a)
             [] a.state = "CALL_ACTIVE_VOICE" -> appEvalCALL_ACTIVE_VOICE(a)
             [] a.state = "CALL_WAIT_END" -> appEvalCALL_WAIT_END(a)
             [] a.state = "CALL_WAIT_ONHOOK" -> appEvalCALL_WAIT_ONHOOK(a)
  IN  [b EXCEPT !.notify_dial_btn_pressed = FALSE,
                !.notify_bt_ring_indication = FALSE,
                !.eval_dial_btn = a.notify_dial_btn_pressed,
                !.eval_ring = a.notify_bt_ring_indication,
                !.ring_less_evals =
                   IF a.state = "CALL_RECEIVED" /\ b.state = "CALL_RECEIVED"
                      /\ ~a.notify_bt_ring_indication
                     THEN @ + 1 ELSE 0,
                !.idle_evals =
                   IF a.state = "DIALING" /\ b.state = "DIALING"
                      /\ Len(a.dialing_num) > 0
                     THEN IF a.activity THEN 1 ELSE @ + 1
                     ELSE 0]

\* one pass of the loop of app_task: the notifications, then the evaluation
appTaskLoop(a, nv) ==
  appEvalState(appHandleNotifications([a EXCEPT !.sent = {}, !.mail = <<>>], nv))

(***************************************************************************)
(* bt_task.c                                                               *)
(***************************************************************************)
\* the reconnect period is explored with its duration divided by BtTimeScale
BT_RECONNECT_COUNT == (BT_RECONNECT_MSEC \div BtTimeScale) \div BT_EVAL_MSEC

bt_stateT ==
  {"BT_DISCONNECTED", "BT_CONNECTED_IDLE", "BT_CALL_INITIATED",
   "BT_CALL_ACTIVE", "BT_WAIT_END"}

\* xTaskNotify issued by bt_task: collected in "sent" during one pass
btNotify(b, t, bit) == [b EXCEPT !.sent = @ \cup {<<t, bit>>}]

\* a call into the Bluedroid stack (esp_hf_client_..., esp_bt_gap_...):
\* collected in "calls" during one pass
btCall(b, f) == [b EXCEPT !.calls = @ \cup {f}]

\* the static variables when the loop of bt_task starts
btInit ==
  [state |-> "BT_DISCONNECTED",
   bt_reconnect_count |-> BT_RECONNECT_COUNT,
   bt_in_service |-> FALSE, bt_in_call |-> FALSE, bt_audio_connected |-> FALSE,
   notify_bt_dial_num |-> FALSE, notify_bt_dial_oper |-> FALSE,
   notify_bt_answer |-> FALSE, notify_bt_hangup |-> FALSE,
   outgoing_phone_num |-> <<>>, outgoing_dtmf_digit |-> "",
   bt_cur_mic_gain |-> "nom", bt_cur_spk_gain |-> "nom",
   ps_mic_gain |-> "nom", ps_spk_gain |-> "nom",
   paired |-> TRUE, bond_valid |-> TRUE,
   sent |-> {}, calls |-> {}]

\* _btSetState
btSetState(b, s) ==
  LET c ==
        CASE s = "BT_DISCONNECTED" ->
               LET b1 == btNotify([b EXCEPT !.bt_reconnect_count = BT_RECONNECT_COUNT - 1],
                                  "app", "BT_OUT_OF_SERVICE")
                   b2 == IF b1.bt_in_call
                           THEN btNotify([b1 EXCEPT !.bt_in_call = FALSE],
                                         "app", "BT_CALL_ENDED")
                           ELSE b1
               IN  IF b2.bt_audio_connected
                     THEN btNotify(btNotify([b2 EXCEPT !.bt_audio_connected = FALSE],
                                            "app", "BT_AUDIO_ENDED"),
                                   "pots", "AUDIO_DIS")
                     ELSE b2
          [] s = "BT_CONNECTED_IDLE" ->
               LET b1 == btNotify(btNotify(b, "app", "BT_IN_SERVICE"),
                                  "app", "BT_CALL_ENDED")
                   b2 == IF b.state = "BT_DISCONNECTED"
                           THEN btCall(b1, "send_nrec") ELSE b1
                   b3 == IF b.state = "BT_CALL_INITIATED"
                           THEN btCall(btCall(b2, "reject_call"),
                                       "stop_voice_recognition")
                           ELSE b2
               IN  [b3 EXCEPT !.bt_reconnect_count = BT_RECONNECT_COUNT]
          [] s = "BT_CALL_INITIATED" ->
               IF b.notify_bt_dial_num THEN btCall(b, "dial")
               ELSE IF b.notify_bt_dial_oper THEN btCall(b, "start_voice_recognition")
               ELSE b
          [] s = "BT_CALL_ACTIVE" ->
               btNotify(b, "app", "BT_CALL_STARTED")
          [] s = "BT_WAIT_END" ->
               btCall(btCall(b, "reject_call"), "stop_voice_recognition")
  IN  [c EXCEPT !.state = s]

\* _btEval, case BT_DISCONNECTED
btEvalDISCONNECTED(b) ==
  IF b.bt_in_service THEN btSetState(b, "BT_CONNECTED_IDLE")
  ELSE IF b.paired
    THEN IF b.bt_reconnect_count + 1 >= BT_RECONNECT_COUNT
           THEN IF ~b.bond_valid
                  THEN btNotify([b EXCEPT !.bt_reconnect_count = 0],
                                "gui", "FORGET_PAIRING")
                  ELSE btCall([b EXCEPT !.bt_reconnect_count = 0], "connect")
           ELSE [b EXCEPT !.bt_reconnect_count = @ + 1]
  ELSE b

\* _btEval, case BT_CONNECTED_IDLE
btEvalCONNECTED_IDLE(b) ==
  IF ~b.bt_in_service THEN btSetState(b, "BT_DISCONNECTED")
  ELSE IF b.notify_bt_answer THEN btCall(b, "answer_call")
  ELSE IF b.bt_in_call THEN btSetState(b, "BT_CALL_ACTIVE")
  ELSE IF b.notify_bt_dial_num \/ b.notify_bt_dial_oper
    THEN btSetState(b, "BT_CALL_INITIATED")
  ELSE IF b.notify_bt_hangup THEN btCall(b, "reject_call")
  ELSE b

\* _btEval, case BT_CALL_INITIATED
btEvalCALL_INITIATED(b) ==
  IF ~b.bt_in_service THEN btSetState(b, "BT_DISCONNECTED")
  ELSE IF b.bt_in_call THEN btSetState(b, "BT_CALL_ACTIVE")
  ELSE IF b.notify_bt_hangup THEN btSetState(b, "BT_CONNECTED_IDLE")
  ELSE b

\* _btEval, case BT_CALL_ACTIVE
btEvalCALL_ACTIVE(b) ==
  IF ~b.bt_in_service THEN btSetState(b, "BT_DISCONNECTED")
  ELSE IF ~b.bt_in_call THEN btSetState(b, "BT_CONNECTED_IDLE")
  ELSE IF b.notify_bt_hangup THEN btSetState(b, "BT_WAIT_END")
  ELSE b

\* _btEval, case BT_WAIT_END
btEvalWAIT_END(b) ==
  IF ~b.bt_in_service THEN btSetState(b, "BT_DISCONNECTED")
  ELSE IF ~b.bt_in_call THEN btSetState(b, "BT_CONNECTED_IDLE")
  ELSE b

\* the end of _btEval: the one-shot flags are cleared
btClearNotifiers(b) ==
  [b EXCEPT !.notify_bt_dial_num = FALSE, !.notify_bt_dial_oper = FALSE,
            !.notify_bt_answer = FALSE, !.notify_bt_hangup = FALSE]

\* _btEval
btEval(b) ==
  btClearNotifiers(
    CASE b.state = "BT_DISCONNECTED" -> btEvalDISCONNECTED(b)
      [] b.state = "BT_CONNECTED_IDLE" -> btEvalCONNECTED_IDLE(b)
      [] b.state = "BT_CALL_INITIATED" -> btEvalCALL_INITIATED(b)
      [] b.state = "BT_CALL_ACTIVE" -> btEvalCALL_ACTIVE(b)
      [] b.state = "BT_WAIT_END" -> btEvalWAIT_END(b))

\* _btHandleNotifications, one operator for each bit it tests
btOnSlcCon(b, nv) ==
  IF Notification(nv, "SLC_CON") THEN [b EXCEPT !.bt_in_service = TRUE] ELSE b

btOnSlcDis(b, nv) ==
  IF Notification(nv, "SLC_DIS") THEN [b EXCEPT !.bt_in_service = FALSE] ELSE b

btOnCallAct(b, nv) ==
  IF Notification(nv, "CALL_ACT") THEN [b EXCEPT !.bt_in_call = TRUE] ELSE b

btOnCallInact(b, nv) ==
  IF Notification(nv, "CALL_INACT") THEN [b EXCEPT !.bt_in_call = FALSE] ELSE b

btOnAudioCon(b, nv) ==
  IF Notification(nv, "AUDIO_CON") THEN [b EXCEPT !.bt_audio_connected = TRUE] ELSE b

btOnAudioDis(b, nv) ==
  IF Notification(nv, "AUDIO_DIS") THEN [b EXCEPT !.bt_audio_connected = FALSE] ELSE b

btOnDisconnect(b, nv) ==
  IF Notification(nv, "DISCONNECT") /\ b.bt_in_service
    THEN btCall(b, "disconnect") ELSE b

btOnAnswerCall(b, nv) ==
  IF Notification(nv, "ANSWER_CALL") THEN [b EXCEPT !.notify_bt_answer = TRUE] ELSE b

btOnHangupCall(b, nv) ==
  IF Notification(nv, "HANGUP_CALL") THEN [b EXCEPT !.notify_bt_hangup = TRUE] ELSE b

btOnDialNum(b, nv) ==
  IF Notification(nv, "DIAL_NUM") THEN [b EXCEPT !.notify_bt_dial_num = TRUE] ELSE b

btOnDialOper(b, nv) ==
  IF Notification(nv, "DIAL_OPER") THEN [b EXCEPT !.notify_bt_dial_oper = TRUE] ELSE b

btOnDialDtmf(b, nv) ==
  IF Notification(nv, "DIAL_DTMF") /\ b.state = "BT_CALL_ACTIVE"
    THEN btCall(b, "send_dtmf") ELSE b

btVolumeUpdate(b, target) ==
  IF b.state = "BT_CALL_ACTIVE" THEN btCall(b, target) ELSE b

btOnNewMicGain(b, nv) ==
  IF Notification(nv, "NEW_MIC_GAIN")
    THEN btVolumeUpdate([b EXCEPT !.bt_cur_mic_gain = b.ps_mic_gain],
                        "volume_update_mic")
    ELSE b

btOnNewSpkGain(b, nv) ==
  IF Notification(nv, "NEW_SPK_GAIN")
    THEN btVolumeUpdate([b EXCEPT !.bt_cur_spk_gain = b.ps_spk_gain],
                        "volume_update_spk")
    ELSE b

btDisconnectIfInService(b) ==
  IF b.bt_in_service THEN btCall(b, "disconnect") ELSE b

btOnEnablePair(b, nv) ==
  IF Notification(nv, "ENABLE_PAIR")
    THEN btCall(btDisconnectIfInService(b), "scan_mode_discoverable") ELSE b

btOnDisablePair(b, nv) ==
  IF Notification(nv, "DISABLE_PAIR")
    THEN btCall(b, "scan_mode_non_discoverable") ELSE b

btOnForgetPair(b, nv) ==
  IF Notification(nv, "FORGET_PAIR")
    THEN btCall(btDisconnectIfInService(b), "remove_bond_device") ELSE b

btOnConfirmPin(b, nv) ==
  IF Notification(nv, "CONFIRM_PIN") THEN btCall(b, "ssp_confirm_reply_true") ELSE b

btOnDenyPin(b, nv) ==
  IF Notification(nv, "DENY_PIN") THEN btCall(b, "ssp_confirm_reply_false") ELSE b

\* _btHandleNotifications: the bits are handled in the order of the source
btHandleNotifications(b, nv) ==
  btOnDenyPin(btOnConfirmPin(
  btOnForgetPair(btOnDisablePair(btOnEnablePair(
  btOnNewSpkGain(btOnNewMicGain(
  btOnDialDtmf(btOnDialOper(btOnDialNum(
  btOnHangupCall(btOnAnswerCall(
  btOnDisconnect(
  btOnAudioDis(btOnAudioCon(
  btOnCallInact(btOnCallAct(
  btOnSlcDis(btOnSlcCon(b, nv), nv),
  nv), nv), nv), nv), nv), nv), nv), nv), nv), nv), nv), nv), nv), nv), nv),
  nv), nv)

\* one pass of the loop of bt_task
btTaskLoop(b, nv) ==
  btEval(btHandleNotifications([b EXCEPT !.sent = {}, !.calls = {}], nv))

\* the last value a pass handed to the setter, or the value it had
LastSet(mail, setter, old) ==
  LET idx == {i \in 1..Len(mail) : mail[i][1] = setter}
  IN  IF idx = {} THEN old
      ELSE mail[CHOOSE i \in idx : \A k \in idx : k <= i][2]

\* bt_set_outgoing_number, bt_set_dtmf_digit: called by app_task before it
\* sets DIAL_NUM or DIAL_DTMF
btMail(b, mail) ==
  [b EXCEPT !.outgoing_phone_num = LastSet(mail, "bt_set_outgoing_number", @),
            !.outgoing_dtmf_digit = LastSet(mail, "bt_set_dtmf_digit", @)]

\* the bits one pass of a task sent to the task "t"
BitsFor(sent, t) == {x[2] : x \in {y \in sent : y[1] = t}}

\* the world outside the tasks: the HFP link (service level connection, audio
\* connection) and the handset.  env.watch is history: "fresh" after a pass of
\* bt_task entered BT_DISCONNECTED, "polled" once app_task has polled after
\* it with no callback of the stack in between, "none" otherwise
\* env.country_code is ps_data.country_code of the settings store and
\* env.new_country the bit POTS_NOTIFY_NEW_COUNTRY_MASK pending for pots_task
\* env.gui holds what gui_task and the settings screen keep of the gains:
\*   notify                     the notification word of gui_task
\*   new_mic_gain, new_spk_gain gui_new_mic_gain, gui_new_spk_gain
\*   cur_mic_gain, cur_spk_gain the values of the two sliders
\* and the history of the gain changes:
\*   gui_changes   changes of a slider by the user
\*   bt_changes    volume control events of the remote device
\*   to_gui        GUI_NOTIFY_UPDATE_*_GAIN bits sent by app_task
\*   to_bt         BT_NOTIFY_NEW_*_GAIN bits sent by app_task
\*   to_app        APP_NOTIFY_NEW_*_GAIN bits sent by the loops of bt_task
\*                 and gui_task
\*   vol           calls of esp_hf_client_volume_update by the loop of bt_task
\* env.pots_notify is the notification word of pots_task where app_task and
\* pots_task run together, env.call_events counts the events of the
\* cellphone, the dial button and the hook switch there, and
\* env.first_ring is history: the ring event waiting for
\* pots_task is the first one of a new call
guiInit ==
  [notify |-> {}, new_mic_gain |-> "nom", new_spk_gain |-> "nom",
   cur_mic_gain |-> "nom", cur_spk_gain |-> "nom",
   gui_changes |-> 0, bt_changes |-> 0, to_gui |-> 0, to_bt |-> 0,
   to_app |-> 0, vol |-> 0]

(***************************************************************************)
(* gcore_task.c: the power task.  env.gcore holds                          *)
(*   loop             "fatal" in the loop entered when power_init failed,  *)
(*                    "normal" in the main loop, "off" once power_off ran  *)
(*   notify           the notification word of gcore_task                  *)
(*   notify_poweroff  the flag of the same name                            *)
(*   saw_activity     the flag of the same name                            *)
(*   batt_mon_count   the counter of the same name                         *)
(*   steps            GCORE_BATT_MON_STEPS                                 *)
(* and the history                                                         *)
(*   codec_failed     audio_task reported the failure of the codec         *)
(*   requests         GCORE_NOTIFY_SHUTOFF_MASK notifications sent         *)
(*   dropped          notify_poweroff was cleared with no power_off        *)
(***************************************************************************)
gcoreInit ==
  [loop |-> "normal", notify |-> {}, notify_poweroff |-> FALSE,
   saw_activity |-> FALSE, batt_mon_count |-> 0, steps |-> 1,
   codec_failed |-> FALSE, requests |-> 0, dropped |-> FALSE]

\* power_off
power_off(g) == [g EXCEPT !.loop = "off"]

\* _gcoreHandleNotifications
gcoreHandleNotifications(g) ==
  [g EXCEPT !.notify = {},
            !.notify_poweroff = "SHUTOFF" \in g.notify,
            !.saw_activity = @ \/ "ACTIVITY" \in g.notify,
            !.dropped = @ \/ g.notify_poweroff]

\* gcore_task: one pass of the loop entered when power_init failed
gcoreFatalLoop(g) ==
  IF gcoreHandleNotifications(g).notify_poweroff
    THEN power_off(gcoreHandleNotifications(g))
    ELSE gcoreHandleNotifications(g)

\* gcore_task: the battery monitor of the main loop, run every
\* GCORE_BATT_MON_STEPS passes
gcoreBattMon(g, button, crit) ==
  IF g.batt_mon_count + 1 >= g.steps
    THEN IF button \/ g.notify_poweroff \/ crit
           THEN power_off([g EXCEPT !.batt_mon_count = 0])
           ELSE [g EXCEPT !.batt_mon_count = 0]
    ELSE [g EXCEPT !.batt_mon_count = @ + 1]

\* gcore_task: one pass of the main loop (_gcoreEvalBacklight uses up
\* saw_activity)
gcoreLoop(g, button, crit) ==
  gcoreBattMon([gcoreHandleNotifications(g) EXCEPT !.saw_activity = FALSE],
               button, crit)

envInit == [slc |-> FALSE, audio |-> FALSE, off_hook |-> FALSE, watch |-> "none",
            presses |-> 0, tones |-> 0,
            country_code |-> INT_DEFAULT_COUNTRY, new_country |-> FALSE,
            gui |-> guiInit, gcore |-> gcoreInit,
            pots_notify |-> {}, first_ring |-> FALSE, call_events |-> 0]

(***************************************************************************)
(* SpecApp: app_task alone.  The other tasks are the environment: between  *)
(* two passes of the loop they may set any bits of the notification word   *)
(* (after writing the mailbox variable that goes with the bit).            *)
(***************************************************************************)
\* digits the environment dials
Digits == {"5"}

\* the bits the environment of SpecApp sets
AppEnvBits ==
  {"POTS_ON_HOOK", "POTS_OFF_HOOK", "POTS_DIGIT_DIALED",
   "GUI_DIAL_BTN_PRESSED", "BT_IN_SERVICE",
   "BT_OUT_OF_SERVICE", "BT_RING", "BT_CALL_STARTED", "BT_CALL_ENDED",
   "BT_AUDIO_START", "BT_AUDIO_ENDED"}

\* the words the environment can have built up when app_task polls
AppWords(a) ==
  {nv \in SUBSET AppEnvBits :
     /\ Cardinality(nv) <= MaxPendingBits
     /\ ("BT_RING" \in nv => a.ring_count < MaxRingCount)
     /\ (nv \cap {"POTS_DIGIT_DIALED", "GUI_DIGIT_DIALED"} # {}
           => Len(a.dialing_num) + Cardinality(nv \cap {"POTS_DIGIT_DIALED", "GUI_DIGIT_DIALED"})
                <= MaxDigits)}

\* app_set_pots_digit, app_set_gui_digit, app_set_cid_number: called by the
\* sender before it sets the bit
appMail(a, nv, pd, gd) ==
  LET a1 == IF "POTS_DIGIT_DIALED" \in nv THEN [a EXCEPT !.new_pots_digit = pd] ELSE a
      a2 == IF "GUI_DIGIT_DIALED" \in nv THEN [a1 EXCEPT !.new_gui_digit = gd] ELSE a1
  IN  IF "BT_CID_AVAILABLE" \in nv
        THEN [a2 EXCEPT !.cid_num = "N", !.cid_valid = TRUE] ELSE a2

\* history: what the user did between two passes, in the order the user did
\* it.  A phone digit and a GUI key can both be waiting; gui_first tells
\* which came first.
appUserKey(a, nv, gd) ==
  IF a.state # "DIALING" THEN a
  ELSE IF "GUI_DIGIT_DIALED" \in nv
    THEN [a EXCEPT !.dialed = Append(@, <<gd, "gui">>), !.activity = TRUE]
  ELSE IF "GUI_DIGIT_DELETED" \in nv
    THEN [a EXCEPT !.dialed = IF Len(@) > 0 THEN SubSeq(@, 1, Len(@) - 1) ELSE @,
                   !.activity = TRUE]
  ELSE a

appUserDigit(a, nv, pd) ==
  IF a.state = "DIALING" /\ "POTS_DIGIT_DIALED" \in nv
    THEN [a EXCEPT !.dialed = Append(@, <<pd, "pots">>), !.activity = TRUE]
    ELSE a

appDialed(a, nv, pd, gd, gui_first) ==
  IF gui_first
    THEN [appUserDigit(appUserKey([a EXCEPT !.activity = FALSE], nv, gd), nv, pd)
            EXCEPT !.raced = @ \/ (a.state = "DIALING"
                                    /\ "POTS_DIGIT_DIALED" \in nv
                                    /\ nv \cap {"GUI_DIGIT_DIALED", "GUI_DIGIT_DELETED"} # {})]
    ELSE appUserKey(appUserDigit([a EXCEPT !.activity = FALSE], nv, pd), nv, gd)

\* the pass of the loop that reads the word nv
AppStep(nv, pd, gd) ==
  /\ app' = appTaskLoop(appMail(appDialed(app, nv, pd, gd, FALSE), nv, pd, gd), nv)
  /\ app'.dialing_pots_digit_timer <= MaxDialTimer
  /\ UNCHANGED <<app_notify, btVars, env, nt, pots, aud>>

AppPoll ==
  \E nv \in AppWords(app) :
    \E pd \in (IF "POTS_DIGIT_DIALED" \in nv THEN Digits ELSE {app.new_pots_digit}) :
      \E gd \in (IF "GUI_DIGIT_DIALED" \in nv THEN Digits ELSE {app.new_gui_digit}) :
        AppStep(nv, pd, gd)

InitApp ==
  /\ app = appInit
  /\ app_notify = {}
  /\ bt = btInit
  /\ bt_notify = {}
  /\ env = envInit
  /\ nt = ntIdle /\ pots = potsIdle /\ aud = audInit

NextApp == AppPoll

SpecApp == InitApp /\ [][NextApp]_vars

TypeApp == app.state \in app_state_t

(***************************************************************************)
(* SpecDial: app_task and a user who dials.  The environment sets the bits *)
(* of the phone (hook, digits) and of the GUI keypad (digit, delete, dial  *)
(* button); gui_task sends at most one key between two passes.             *)
(***************************************************************************)
DialDigits == {"0", "5"}

DialEnvBits ==
  {"BT_IN_SERVICE", "POTS_OFF_HOOK", "POTS_ON_HOOK", "POTS_DIGIT_DIALED",
   "GUI_DIGIT_DIALED", "GUI_DIGIT_DELETED", "GUI_DIAL_BTN_PRESSED"}

DialWords(a) ==
  {nv \in SUBSET DialEnvBits :
     /\ Cardinality(nv) <= MaxPendingBits
     /\ Cardinality(nv \cap {"GUI_DIGIT_DIALED", "GUI_DIGIT_DELETED"}) <= 1
     /\ Len(a.dialing_num)
          + Cardinality(nv \cap {"POTS_DIGIT_DIALED", "GUI_DIGIT_DIALED"})
            <= MaxDialDigits}

DialPoll ==
  \E nv \in DialWords(app) :
    \E pd \in (IF "POTS_DIGIT_DIALED" \in nv THEN DialDigits ELSE {app.new_pots_digit}) :
      \E gd \in (IF "GUI_DIGIT_DIALED" \in nv THEN DialDigits ELSE {app.new_gui_digit}) :
        \E gui_first \in (IF "POTS_DIGIT_DIALED" \in nv
                              /\ nv \cap {"GUI_DIGIT_DIALED", "GUI_DIGIT_DELETED"} # {}
                             THEN BOOLEAN ELSE {FALSE}) :
          /\ app' = appTaskLoop(appMail(appDialed(app, nv, pd, gd, gui_first),
                                        nv, pd, gd), nv)
          /\ app'.dialing_pots_digit_timer <= MaxDialTimer
          /\ UNCHANGED <<app_notify, btVars, env, nt, pots, aud>>

NextDial == DialPoll

SpecDial == InitApp /\ [][NextDial]_vars

(***************************************************************************)
(* SpecSys: bt_task and app_task together.  The HFP stack calls            *)
(* _bt_hf_client_cb from its own task; pots_task and gui_task are          *)
(* represented by the events they send to app_task.                        *)
(***************************************************************************)
\* the environment sets a bit only while fewer than MaxPendingBits bits are
\* waiting for the two tasks (they poll every 20 ms and every 50 ms)
EnvMaySet == Cardinality(bt_notify) + Cardinality(app_notify) < MaxPendingBits

\* a record of a task once its notifications and mail have been delivered
btDelivered(b) == [b EXCEPT !.sent = {}, !.calls = {}]
appDelivered(a) ==
  [a EXCEPT !.sent = {}, !.mail = <<>>, !.eval_dial_btn = FALSE, !.eval_ring = FALSE]

\* _bt_hf_client_cb, ESP_HF_CLIENT_CONNECTION_STATE_EVT, SLC_CONNECTED
HfSlcConnected ==
  /\ EnvMaySet
  /\ ~env.slc
  /\ env' = [env EXCEPT !.slc = TRUE, !.watch = "none"]
  /\ bt_notify' = bt_notify \cup {"SLC_CON"}
  /\ UNCHANGED <<app, app_notify, bt, nt, pots, aud>>

\* _bt_hf_client_cb, ESP_HF_CLIENT_CONNECTION_STATE_EVT, DISCONNECTED (the
\* link may drop while the audio connection is open)
HfSlcDisconnected ==
  /\ EnvMaySet
  /\ env.slc
  /\ env' = [env EXCEPT !.slc = FALSE, !.audio = FALSE, !.watch = "none"]
  /\ bt_notify' = bt_notify \cup {"SLC_DIS"}
  /\ UNCHANGED <<app, app_notify, bt, nt, pots, aud>>

\* _bt_hf_client_cb, ESP_HF_CLIENT_CIND_CALL_SETUP_EVT
HfCallSetup ==
  /\ EnvMaySet
  /\ env.slc
  /\ \E idle \in BOOLEAN :
       bt_notify' = bt_notify \cup {IF idle THEN "CALL_INACT" ELSE "CALL_ACT"}
  /\ env' = [env EXCEPT !.watch = "none"]
  /\ UNCHANGED <<app, app_notify, bt, nt, pots, aud>>

\* _bt_hf_client_cb, ESP_HF_CLIENT_AUDIO_STATE_EVT, connected:
\* _bt_hf_client_audio_open
HfAudioOpen ==
  /\ EnvMaySet
  /\ env.slc /\ ~env.audio
  /\ env' = [env EXCEPT !.audio = TRUE, !.watch = "none"]
  /\ bt_notify' = bt_notify \cup {"AUDIO_CON"}
  /\ app_notify' = app_notify \cup {"BT_AUDIO_START"}
  /\ UNCHANGED <<app, bt, nt, pots, aud>>

\* _bt_hf_client_cb, ESP_HF_CLIENT_AUDIO_STATE_EVT, disconnected:
\* _bt_hf_client_audio_close
HfAudioClose ==
  /\ EnvMaySet
  /\ env.audio
  /\ env' = [env EXCEPT !.audio = FALSE, !.watch = "none"]
  /\ app_notify' = app_notify \cup {"BT_AUDIO_ENDED"}
  /\ bt_notify' = bt_notify \cup {"AUDIO_DIS"}
  /\ UNCHANGED <<app, bt, nt, pots, aud>>

\* _bt_hf_client_cb, ESP_HF_CLIENT_RING_IND_EVT
HfRing ==
  /\ EnvMaySet
  /\ env.slc
  /\ app.ring_count < MaxRingCount
  /\ app_notify' = app_notify \cup {"BT_RING"}
  /\ env' = [env EXCEPT !.watch = "none"]
  /\ UNCHANGED <<app, bt, bt_notify, nt, pots, aud>>

\* pots_task reports the hook switch (_potsEvalPhoneState)
PotsHook ==
  /\ EnvMaySet
  /\ env' = [env EXCEPT !.off_hook = ~@]
  /\ app_notify' = app_notify \cup {IF env.off_hook THEN "POTS_ON_HOOK"
                                                     ELSE "POTS_OFF_HOOK"}
  /\ UNCHANGED <<app, bt, bt_notify, nt, pots, aud>>

\* gui_task reports the dial/hang-up button
GuiDialBtn ==
  /\ EnvMaySet
  /\ app_notify' = app_notify \cup {"GUI_DIAL_BTN_PRESSED"}
  /\ UNCHANGED <<app, bt, bt_notify, env, nt, pots, aud>>

\* one pass of the loop of bt_task
BtPoll ==
  /\ bt' = btDelivered(btTaskLoop(bt, bt_notify))
  /\ bt_notify' = {}
  /\ app_notify' = app_notify \cup BitsFor(btTaskLoop(bt, bt_notify).sent, "app")
  /\ env' = [env EXCEPT !.watch =
               IF bt.state # "BT_DISCONNECTED" /\ bt'.state = "BT_DISCONNECTED"
                 THEN "fresh"
               ELSE IF bt'.state # "BT_DISCONNECTED" THEN "none"
               ELSE @,
                         !.tones =
               IF "send_dtmf" \in btTaskLoop(bt, bt_notify).calls THEN @ + 1 ELSE @]
  /\ UNCHANGED <<app, nt, pots, aud>>

\* one pass of the loop of app_task
AppPollSys ==
  /\ app' = appDelivered(appTaskLoop(app, app_notify))
  /\ app'.dialing_pots_digit_timer <= MaxDialTimer
  /\ app_notify' = {}
  /\ bt_notify' = bt_notify \cup BitsFor(appTaskLoop(app, app_notify).sent, "bt")
  /\ bt' = btMail(bt, appTaskLoop(app, app_notify).mail)
  /\ env' = [env EXCEPT !.watch = IF @ = "fresh" THEN "polled" ELSE "none"]
  /\ UNCHANGED <<nt, pots, aud>>

InitSys ==
  /\ app = appInit
  /\ app_notify = {}
  /\ bt = btInit
  /\ bt_notify = {}
  /\ env = envInit
  /\ nt = ntIdle /\ pots = potsIdle /\ aud = audInit

NextSys ==
  \/ HfSlcConnected
  \/ HfSlcDisconnected
  \/ HfCallSetup
  \/ HfAudioOpen
  \/ HfAudioClose
  \/ HfRing
  \/ PotsHook
  \/ GuiDialBtn
  \/ BtPoll
  \/ AppPollSys

SpecSys == InitSys /\ [][NextSys]_vars

(***************************************************************************)
(* SpecKeys: app_task and bt_task in an active call, with the keypad of    *)
(* the screen.  The call is set up by the events of SpecSys; once it is    *)
(* active on both tasks and nothing is waiting, the user presses the same  *)
(* key up to MaxPresses times, at any moment between the passes of the     *)
(* tasks.  env.presses counts the presses, env.tones the calls of          *)
(* esp_hf_client_send_dtmf.                                                *)
(***************************************************************************)
\* gui_screen_main.c, keypad button: app_set_gui_digit, then the notification
GuiDigit ==
  /\ env.presses < MaxPresses
  /\ app.state = "CALL_ACTIVE_VOICE" /\ bt.state = "BT_CALL_ACTIVE"
  /\ env.presses = 0 => (bt_notify = {} /\ app_notify = {})
  /\ app' = [app EXCEPT !.new_gui_digit = "5"]
  /\ app_notify' = app_notify \cup {"GUI_DIGIT_DIALED"}
  /\ env' = [env EXCEPT !.presses = @ + 1]
  /\ UNCHANGED <<bt, bt_notify, nt, pots, aud>>

\* the events that set the call up stop with the first press
KeysSetup ==
  /\ env.presses = 0
  /\ HfSlcConnected \/ HfCallSetup \/ HfAudioOpen \/ PotsHook

NextKeys ==
  \/ KeysSetup
  \/ GuiDigit
  \/ BtPoll
  \/ AppPollSys

SpecKeys == InitSys /\ [][NextKeys]_vars

(***************************************************************************)
(* SpecGain: app_task, bt_task and gui_task with the two audio gains.  The *)
(* user moves a slider of the settings screen, the remote device reports   *)
(* a volume; the persistent store of the gains is read by app_task and     *)
(* bt_task (their fields ps_*_gain) and written by the settings screen.    *)
(***************************************************************************)
GainValues == {"nom", "low"}
GainKinds == {"MIC", "SPK"}

GuiGainBits == {"UPDATE_MIC_GAIN", "UPDATE_SPK_GAIN"}
BtGainBits == {"NEW_MIC_GAIN", "NEW_SPK_GAIN"}
AppGainBits == {"NEW_GUI_MIC_GAIN", "NEW_GUI_SPK_GAIN",
                "NEW_BT_MIC_GAIN", "NEW_BT_SPK_GAIN"}

GainMayChange == env.gui.gui_changes + env.gui.bt_changes < MaxGainChanges

\* ps_set_gain
psSetGain(r, kind, g) ==
  IF kind = "MIC" THEN [r EXCEPT !.ps_mic_gain = g] ELSE [r EXCEPT !.ps_spk_gain = g]

\* _cb_gain_sld, LV_EVENT_VALUE_CHANGED: the user has moved a slider
GuiGainSld ==
  /\ GainMayChange
  /\ \E kind \in GainKinds, g \in GainValues :
       /\ app' = psSetGain(app, kind, g)
       /\ bt' = psSetGain(bt, kind, g)
       /\ app_notify' = app_notify \cup
            {IF kind = "MIC" THEN "NEW_GUI_MIC_GAIN" ELSE "NEW_GUI_SPK_GAIN"}
       /\ env' = [env EXCEPT !.gui =
                    IF kind = "MIC"
                      THEN [@ EXCEPT !.cur_mic_gain = g, !.gui_changes = @ + 1]
                      ELSE [@ EXCEPT !.cur_spk_gain = g, !.gui_changes = @ + 1]]
  /\ UNCHANGED <<bt_notify, nt, pots, aud>>

\* _bt_hf_client_cb, ESP_HF_CLIENT_VOLUME_CONTROL_EVT
HfVolumeControl ==
  /\ GainMayChange
  /\ env.slc
  /\ \E kind \in GainKinds, g \in GainValues :
       /\ app' = IF kind = "MIC" THEN [app EXCEPT !.new_mic_gain = g]
                                 ELSE [app EXCEPT !.new_spk_gain = g]
       /\ app_notify' = app_notify \cup
            {IF kind = "MIC" THEN "NEW_BT_MIC_GAIN" ELSE "NEW_BT_SPK_GAIN"}
  /\ env' = [env EXCEPT !.gui.bt_changes = @ + 1]
  /\ UNCHANGED <<bt, bt_notify, nt, pots, aud>>

\* gui_screen_settings_update_mic_gain / _spk_gain: the slider is set with
\* lv_slider_set_value, which sends no event to _cb_gain_sld
guiUpdateGain(g, kind) ==
  IF kind = "MIC" THEN [g EXCEPT !.cur_mic_gain = g.new_mic_gain]
                  ELSE [g EXCEPT !.cur_spk_gain = g.new_spk_gain]

\* one pass of the loop of gui_task (the two gain notifications of it)
GuiPoll ==
  /\ env.gui.notify # {}
  /\ LET mic == Notification(env.gui.notify, "UPDATE_MIC_GAIN")
         spk == Notification(env.gui.notify, "UPDATE_SPK_GAIN")
         g1 == IF mic THEN guiUpdateGain(env.gui, "MIC") ELSE env.gui
         g2 == IF spk THEN guiUpdateGain(g1, "SPK") ELSE g1
         ps(r) == [r EXCEPT !.ps_mic_gain = IF mic THEN env.gui.new_mic_gain ELSE @,
                            !.ps_spk_gain = IF spk THEN env.gui.new_spk_gain ELSE @]
     IN /\ env' = [env EXCEPT !.gui = [g2 EXCEPT !.notify = {}]]
        /\ app' = ps(app)
        /\ bt' = ps(bt)
  /\ UNCHANGED <<app_notify, bt_notify, nt, pots, aud>>

\* one pass of the loop of bt_task
GainBtPoll ==
  /\ bt' = btDelivered(btTaskLoop(bt, bt_notify))
  /\ bt_notify' = {}
  /\ app_notify' = app_notify \cup BitsFor(btTaskLoop(bt, bt_notify).sent, "app")
  /\ env' = [env EXCEPT
       !.gui.vol = @ + Cardinality(btTaskLoop(bt, bt_notify).calls
                                     \cap {"volume_update_mic", "volume_update_spk"}),
       !.gui.to_app = @ + Cardinality(BitsFor(btTaskLoop(bt, bt_notify).sent, "app")
                                        \cap AppGainBits)]
  /\ UNCHANGED <<app, nt, pots, aud>>

\* one pass of the loop of app_task
GainAppPoll ==
  /\ app' = appDelivered(appTaskLoop(app, app_notify))
  /\ app'.dialing_pots_digit_timer <= MaxDialTimer
  /\ app_notify' = {}
  /\ bt_notify' = bt_notify \cup BitsFor(appTaskLoop(app, app_notify).sent, "bt")
  /\ bt' = btMail(bt, appTaskLoop(app, app_notify).mail)
  /\ env' = [env EXCEPT
       !.gui.notify = @ \cup (BitsFor(appTaskLoop(app, app_notify).sent, "gui")
                                \cap GuiGainBits),
       !.gui.new_mic_gain =
          LastSet(appTaskLoop(app, app_notify).mail, "gui_set_new_mic_gain", @),
       !.gui.new_spk_gain =
          LastSet(appTaskLoop(app, app_notify).mail, "gui_set_new_spk_gain", @),
       !.gui.to_gui = @ + Cardinality(BitsFor(appTaskLoop(app, app_notify).sent, "gui")
                                        \cap GuiGainBits),
       !.gui.to_bt = @ + Cardinality(BitsFor(appTaskLoop(app, app_notify).sent, "bt")
                                       \cap BtGainBits)]
  /\ UNCHANGED <<nt, pots, aud>>

\* the events that set a call up stop with the first gain change
GainSetup ==
  /\ env.gui.gui_changes + env.gui.bt_changes = 0
  /\ HfSlcConnected \/ HfCallSetup \/ HfAudioOpen \/ PotsHook

NextGain ==
  \/ GainSetup
  \/ GuiGainSld
  \/ HfVolumeControl
  \/ GuiPoll
  \/ GainBtPoll
  \/ GainAppPoll

SpecGain == InitSys /\ [][NextGain]_vars

(***************************************************************************)
(* SpecNotify: one receiving task and its notification word, with the read *)
(* of the word and the handling of the value read as separate steps, so    *)
(* that senders run before the read, between the read and the handling,    *)
(* and after it.  The six tasks poll with the same call.                   *)
(***************************************************************************)
NotifyTasks == {"app", "bt", "pots", "audio", "gui", "gcore"}

\* two of the bits of each task's word
NotifySample(t) ==
  CASE t = "app" -> {"POTS_ON_HOOK", "BT_RING"}
    [] t = "bt" -> {"SLC_DIS", "HANGUP_CALL"}
    [] t = "pots" -> {"RING", "DONE_RINGING"}
    [] t = "audio" -> {"DISABLE", "EN_TONE"}
    [] t = "gui" -> {"STATUS_UPDATE", "PH_NUM_UPDATE"}
    [] t = "gcore" -> {"ACTIVITY", "SHUTOFF"}

\* the mask 0xFFFFFFFF
NotifyAllBits == UNION {NotifySample(t) : t \in NotifyTasks}

\* xTaskNotify(handle, bit, eSetBits): the bit is or-ed into the word and the
\* task's notification state becomes "received"
xTaskNotify(n, bit) ==
  [n EXCEPT !.word = @ \cup {bit}, !.received = TRUE]

\* xTaskNotifyWait(clearOnEntry, clearOnExit, &value, 0): with a notification
\* received the word is returned and the exit bits are cleared; with none the
\* entry bits are cleared and the call returns false at once
xTaskNotifyWait(n, clearOnEntry, clearOnExit) ==
  IF n.received
    THEN [n EXCEPT !.value = n.word, !.word = n.word \ clearOnExit,
                   !.ret = TRUE, !.received = FALSE]
    ELSE [n EXCEPT !.value = n.word \ clearOnEntry, !.word = n.word \ clearOnEntry,
                   !.ret = FALSE]

\* variant: the masks exchanged, xTaskNotifyWait(0xFFFFFFFF, 0x00, &value, 0)
TaskNotifyWait_ClearOnEntry(n) == xTaskNotifyWait(n, NotifyAllBits, {})

\* the call every task makes: xTaskNotifyWait(0x00, 0xFFFFFFFF, &value, 0)
TaskNotifyWait(n) == xTaskNotifyWait(n, {}, NotifyAllBits)

\* the handling of the value read: "if (Notification(value, MASK))", once for
\* each mask, inside "if (xTaskNotifyWait(...))"
TaskHandle(n) ==
  [n EXCEPT !.obs = [b \in DOMAIN n.obs |->
                       IF n.ret /\ Notification(n.value, b) THEN 1 ELSE 0]]

\* history: sets[b] counts the sets of bit b since the last read, read_sets
\* is its value at the last read, obs[b] the events the last handling saw
ntInit(t) ==
  [task |-> t, word |-> {}, received |-> FALSE, value |-> {}, ret |-> FALSE,
   pc |-> "delay",
   sets |-> [b \in NotifySample(t) |-> 0],
   read_sets |-> [b \in NotifySample(t) |-> 0],
   obs |-> [b \in NotifySample(t) |-> 0]]

\* another task sets a bit
NtSend ==
  /\ \E b \in NotifySample(nt.task) :
       /\ nt.sets[b] < MaxSets
       /\ nt' = [xTaskNotify(nt, b) EXCEPT !.sets[b] = @ + 1]
  /\ UNCHANGED <<sysVars, pots, aud>>

\* the task wakes up and reads its word
NtRead ==
  /\ nt.pc = "delay"
  /\ nt' = [TaskNotifyWait(nt) EXCEPT
              !.pc = "handle",
              !.read_sets = nt.sets,
              !.sets = [b \in DOMAIN nt.sets |-> 0]]
  /\ UNCHANGED <<sysVars, pots, aud>>

\* the task handles the value it read, then sleeps
NtHandle ==
  /\ nt.pc = "handle"
  /\ nt' = [TaskHandle(nt) EXCEPT !.pc = "delay"]
  /\ UNCHANGED <<sysVars, pots, aud>>

InitNotify ==
  /\ \E t \in NotifyTasks : nt = ntInit(t)
  /\ app = appInit /\ app_notify = {} /\ bt = btInit /\ bt_notify = {}
  /\ env = envInit /\ pots = potsIdle /\ aud = audInit

NextNotify == NtSend \/ NtRead \/ NtHandle

SpecNotify == InitNotify /\ [][NextNotify]_vars

\* C3: for every receiving task, any number of sets of a bit between two
\* polls is observed as exactly one event at the next poll; every bit set
\* before a poll is observed and cleared by it; a bit set after the poll has
\* read the word stays in the word for the following poll
C3_NotificationsCoalesceAndSurvive ==
  /\ nt.word = {b \in DOMAIN nt.sets : nt.sets[b] > 0}
  /\ nt.value = {b \in DOMAIN nt.read_sets : nt.read_sets[b] > 0}
  /\ nt.pc = "delay"
       => \A b \in DOMAIN nt.obs :
            nt.obs[b] = IF nt.read_sets[b] > 0 THEN 1 ELSE 0

\* a bit was set twice before the poll, the poll has read it once, and it was
\* set again before the handling ended
C3_Witness ==
  /\ nt.pc = "handle"
  /\ \E b \in DOMAIN nt.sets :
       nt.read_sets[b] >= 2 /\ b \in nt.value /\ nt.sets[b] >= 1 /\ b \in nt.word

(***************************************************************************)
(* Properties of the orchestrator (SpecApp: every step is one pass of the  *)
(* loop, app is the record before the pass and app' the record after it).  *)
(***************************************************************************)
InCallStates ==
  {"CALL_WAIT_ACTIVE", "CALL_INITIATED", "CALL_ACTIVE", "CALL_ACTIVE_VOICE"}

\* the pass saw the handset go on hook
SawOnHook == app.pots_off_hook /\ ~app'.pots_off_hook

\* the pass saw a local hang-up: the handset went on hook or the GUI button
LocalHangup == SawOnHook \/ app'.eval_dial_btn

\* the pass asked the Cellular state machine to hang up
HangupSent == <<"bt", "HANGUP_CALL">> \in app'.sent

C10_IdleEvaluation ==
  [][(app.state = "CONNECTED_IDLE" /\ app'.bt_in_service)
       => app'.state =
            IF app'.eval_ring THEN "CALL_RECEIVED"
            ELSE IF app'.pots_off_hook
              THEN IF app'.bt_audio_connected THEN "CALL_ACTIVE_VOICE"
                                              ELSE "DIALING"
            ELSE "CONNECTED_IDLE"]_vars

\* a pass has just taken the off-hook branch of CONNECTED_IDLE (DIALING is
\* entered from CONNECTED_IDLE only)
C10_Witness ==
  /\ app.state = "DIALING"
  /\ <<"gui", "STATUS_UPDATE">> \in app.sent
  /\ app.pots_off_hook /\ ~app.bt_audio_connected /\ ~app.eval_ring

\* the evaluation of CALL_RECEIVED saw service, no button, no call start and
\* the handset on hook: the call was not answered, rejected or started
RingWaiting ==
  /\ app.state = "CALL_RECEIVED"
  /\ app'.bt_in_service /\ ~app'.eval_dial_btn
  /\ ~app'.bt_in_call /\ ~app'.pots_off_hook

\* the pass told pots_task that the rings of the call are over
DoneRingingSent == <<"pots", "DONE_RINGING">> \in app'.sent

\* C11: in CALL_RECEIVED, while the call is not answered, rejected or
\* started, an evaluation that sees a ring restarts the time-out and stays;
\* an evaluation that sees none counts one more, and the one that completes
\* APP_LAST_RING_DETECT_MSEC / APP_EVAL_MSEC (7000 / 50 = 140, scaled)
\* consecutive ring-less evaluations returns to CONNECTED_IDLE and sends
\* DONE_RINGING to pots_task; CALL_RECEIVED is left for CONNECTED_IDLE and
\* DONE_RINGING is sent in no other way; the notification handler of
\* pots_task, given the bits of that pass, leaves its ring counter at 0
C11_RingLossReturnsToIdle ==
  [][/\ APP_LAST_RING_DETECT_MSEC \div APP_EVAL_MSEC = 140
     /\ (RingWaiting /\ app'.eval_ring)
          => /\ app'.state = "CALL_RECEIVED" /\ ~DoneRingingSent
             /\ app'.ring_less_evals = 0 /\ app'.call_received_timer = 0
     /\ (RingWaiting /\ ~app'.eval_ring
           /\ app.ring_less_evals + 1 < APP_LAST_RING_DETECT_COUNT)
          => /\ app'.state = "CALL_RECEIVED" /\ ~DoneRingingSent
             /\ app'.ring_less_evals = app.ring_less_evals + 1
     /\ (RingWaiting /\ ~app'.eval_ring
           /\ app.ring_less_evals + 1 >= APP_LAST_RING_DETECT_COUNT)
          => (app'.state = "CONNECTED_IDLE" /\ DoneRingingSent)
     /\ (DoneRingingSent \/ (app.state = "CALL_RECEIVED" /\ app'.state = "CONNECTED_IDLE"))
          => /\ RingWaiting /\ ~app'.eval_ring /\ DoneRingingSent
             /\ app'.state = "CONNECTED_IDLE"
             /\ app.ring_less_evals + 1 = APP_LAST_RING_DETECT_COUNT
             /\ \A n \in 0..MaxPotsRings :
                  potsHandleNotifications([potsIdle EXCEPT !.pots_ring_num = n],
                                          BitsFor(app'.sent, "pots"),
                                          potsIdle.country).pots_ring_num = 0
    ]_vars

\* a pass has just given up an unanswered call
C11_Witness ==
  /\ app.state = "CONNECTED_IDLE"
  /\ <<"pots", "DONE_RINGING">> \in app.sent
  /\ app.call_received_timer = APP_LAST_RING_DETECT_COUNT

(***************************************************************************)
(* Properties of dialling (SpecDial)                                       *)
(***************************************************************************)
\* the pass left DIALING to issue the dial command
DialIssued == app.state = "DIALING" /\ app'.state = "CALL_INITIATED"

\* evaluations since the last digit or deletion, this one included
DialIdleEvals == IF app'.activity THEN 1 ELSE app.idle_evals + 1

\* the digits of a history of the number
DialedDigits(d) == [i \in 1..Len(d) |-> d[i][1]]

\* the number handed to bt_task by the pass
DialNumberSet(n) ==
  \E i \in 1..Len(app'.mail) : app'.mail[i] = <<"bt_set_outgoing_number", n>>

C2_NoFlagAfterDisconnect ==
  env.watch = "polled" => (~app.bt_in_call /\ ~app.bt_audio_connected)

\* the part of C2 that is local to bt_task: a pass that enters
\* BT_DISCONNECTED leaves both flags of bt_task false
C2_BtFlagsCleared ==
  env.watch = "fresh" => (~bt.bt_in_call /\ ~bt.bt_audio_connected)

(***************************************************************************)
(* SpecAudio: the audio task (I2S side) and the Bluetooth / tone side      *)
(* calling into the two buffers.  Each buffer is only touched under its    *)
(* mutex, so every critical section is one step.                           *)
(***************************************************************************)
\* audioGetVoiceRx / audioGetToneRx called from another task
AudGetRx ==
  /\ \E len \in 0..MaxPutLen : aud' = audioGetRx(aud, len)
  /\ UNCHANGED <<sysVars, nt, pots>>

\* audioPutVoiceTx / audioPutToneTx called from another task
AudPutTx ==
  /\ \E len \in 0..MaxPutLen : aud' = audioPutTx(aud, len)
  /\ UNCHANGED <<sysVars, nt, pots>>

\* audio task, I2S_EVENT_TX_DONE
AudGetTx ==
  /\ aud.init_pc = "none"
  /\ aud' = audioGetTx(aud, I2S_SAMPLES)
  /\ UNCHANGED <<sysVars, nt, pots>>

\* audio task, I2S_EVENT_RX_DONE: up to MAX_READ_NUM_SAMPLES sets are read
AudPutRx ==
  /\ aud.init_pc = "none"
  /\ \E len \in 0..(MAX_READ_NUM_SAMPLES * I2S_SAMPLES) : aud' = audioPutRx(aud, len)
  /\ UNCHANGED <<sysVars, nt, pots>>

\* audio task, change of the sample rate of the buffers
AudSetRate ==
  /\ aud.init_pc = "none"
  /\ \E r \in BOOLEAN : aud' = [aud EXCEPT !.ext_sr_16k = r]
  /\ UNCHANGED <<sysVars, nt, pots>>

\* _audioInitBuffers, first critical section
AudInitRx ==
  /\ aud.init_pc = "none"
  /\ aud' = [aud EXCEPT !.rx = audBufInit, !.init_pc = "tx"]
  /\ UNCHANGED <<sysVars, nt, pots>>

\* _audioInitBuffers, second critical section
AudInitTx ==
  /\ aud.init_pc = "tx"
  /\ aud' = [aud EXCEPT !.tx = audBufInit, !.init_pc = "none"]
  /\ UNCHANGED <<sysVars, nt, pots>>

InitAudio ==
  /\ aud = audInit
  /\ app = appInit /\ app_notify = {} /\ bt = btInit /\ bt_notify = {}
  /\ env = envInit /\ nt = ntIdle /\ pots = potsIdle

NextAudio ==
  \/ AudGetRx \/ AudPutTx \/ AudGetTx \/ AudPutRx
  \/ AudSetRate \/ AudInitRx \/ AudInitTx

SpecAudio == InitAudio /\ [][NextAudio]_vars

audBufOk(b) ==
  /\ 0 <= b.count /\ b.count <= BUF_SAMPLES
  /\ 0 <= b.put /\ b.put < BUF_SAMPLES
  /\ 0 <= b.pop /\ b.pop < BUF_SAMPLES

\* C4: for the RX and the TX buffer, after every get and every put, of any
\* length and in any interleaving, 0 <= count <= BUF_SAMPLES and both indices
\* are inside the buffer, also after a put that overflows
C4_BufferCountInBounds == audBufOk(aud.rx) /\ audBufOk(aud.tx)

\* both buffers have just taken a put that overflowed
C4_Witness ==
  /\ aud.rx.ovf /\ aud.tx.ovf
  /\ aud.rx.count > 0 /\ aud.tx.count = 0

(***************************************************************************)
(* SpecStream: audio_task with its notifications.  pots_task selects the   *)
(* source (disable, tone, voice at 8 or 16 kHz) at any moment; the I2S     *)
(* driver queues its events in any order while the stream runs; another    *)
(* task calls the receive-get functions.  Each step of audio_task is one   *)
(* pass of a loop body, _audioHandleNotifications at its end included.     *)
(***************************************************************************)
StreamBits == {"DISABLE", "EN_TONE", "EN_VOICE_8", "EN_VOICE_16"}

\* xTaskNotify(task_handle_audio, <bit>, eSetBits) from pots_task
StreamNotify ==
  /\ Cardinality(aud.notify) < MaxPendingBits
  /\ \E bit \in StreamBits \ aud.notify :
       aud' = [aud EXCEPT !.notify = @ \cup {bit}, !.get = audGetNone]
  /\ UNCHANGED <<sysVars, nt, pots>>

\* outer loop, audio not enabled: wait for a notification
StreamIdlePoll ==
  /\ aud.pc = "idle" /\ ~aud.audio_enabled
  /\ aud' = audioHandleNotifications(aud)
  /\ UNCHANGED <<sysVars, nt, pots>>

\* outer loop, audio enabled: the codec and the I2S driver are started and
\* the TX side is primed
StreamStart ==
  /\ aud.pc = "idle" /\ aud.audio_enabled
  /\ aud' = [audioTxDone(aud) EXCEPT
               !.pc = "stream", !.get = audGetNone, !.switched = FALSE,
               !.stream_mode = <<aud.audio_mux_to_tone, aud.ext_sr_16k>>]
  /\ UNCHANGED <<sysVars, nt, pots>>

StreamRunning == aud.pc = "stream" /\ aud.audio_enabled /\ ~aud.audio_restart

StreamAlignBounded(a) ==
  /\ a.i2s_tx_buf_count <= TX_ALIGN_SAMPLES + MaxAlignExcess
  /\ a.i2s_tx_buf_count >= 0 - MaxAlignExcess

\* streaming loop, I2S_EVENT_TX_DONE
StreamTxDone ==
  /\ StreamRunning
  /\ aud' = audioHandleNotifications(audioTxDone(aud))
  /\ StreamAlignBounded(audioTxDone(aud))
  /\ UNCHANGED <<sysVars, nt, pots>>

\* streaming loop, I2S_EVENT_RX_DONE: i2s_read returns what is available, up
\* to MAX_READ_NUM_SAMPLES sets
StreamRxDone ==
  /\ StreamRunning
  /\ \E len \in 0..(MAX_READ_NUM_SAMPLES * I2S_SAMPLES) :
       /\ aud' = audioHandleNotifications(audioRxDone(aud, len))
       /\ StreamAlignBounded(audioRxDone(aud, len))
  /\ UNCHANGED <<sysVars, nt, pots>>

\* streaming loop, I2S_EVENT_TX_Q_OVF, _RX_Q_OVF or _DMA_ERROR: logged
StreamOtherEvent ==
  /\ StreamRunning
  /\ aud' = audioHandleNotifications(aud)
  /\ UNCHANGED <<sysVars, nt, pots>>

\* the streaming loop is left: I2S and codec stopped, the restart flag
\* cleared, _audioInitBuffers
StreamStop ==
  /\ aud.pc = "stream" /\ ~(aud.audio_enabled /\ ~aud.audio_restart)
  /\ aud' = [aud EXCEPT !.audio_restart = FALSE,
                        !.rx = audBufInit, !.tx = audBufInit,
                        !.pc = "idle", !.stream_mode = <<>>, !.get = audGetNone,
                        !.switched = FALSE]
  /\ UNCHANGED <<sysVars, nt, pots>>

NextStream ==
  \/ StreamNotify \/ StreamIdlePoll \/ StreamStart
  \/ StreamTxDone \/ StreamRxDone \/ StreamOtherEvent
  \/ StreamStop

SpecStream == InitAudio /\ [][NextStream]_vars

(***************************************************************************)
(* SpecGet: the receive-get functions as their callers see them.  The      *)
(* call is made in any state of the stream: enabled or not, either source  *)
(* selected, the RX buffer holding any number of samples at any position.  *)
(***************************************************************************)
\* audioGetToneRx called by pots_task
GetToneRx ==
  /\ \E len \in 0..MaxGetLen : aud' = audioGetToneRx(aud, len)
  /\ UNCHANGED <<sysVars, nt, pots>>

\* audioGetVoiceRx called by the HFP stack
GetVoiceRx ==
  /\ \E len \in 0..MaxGetLen : aud' = audioGetVoiceRx(aud, len)
  /\ UNCHANGED <<sysVars, nt, pots>>

InitGet ==
  /\ \E en \in BOOLEAN, tone \in BOOLEAN, pop \in 0..(BUF_SAMPLES - 1),
        count \in 0..BUF_SAMPLES :
       aud = [audInit EXCEPT !.audio_enabled = en, !.audio_mux_to_tone = tone,
                             !.rx = [put |-> (pop + count) % BUF_SAMPLES,
                                     pop |-> pop, count |-> count, ovf |-> FALSE]]
  /\ app = appInit /\ app_notify = {} /\ bt = btInit /\ bt_notify = {}
  /\ env = envInit /\ nt = ntIdle /\ pots = potsIdle

NextGet == GetToneRx \/ GetVoiceRx

SpecGet == InitGet /\ [][NextGet]_vars

(***************************************************************************)
(* SpecPots: pots_task alone.  Each step is one pass of its loop; the ring *)
(* events of the handset, the end-of-ringing of the orchestrator and the   *)
(* level of the hook switch are inputs.                                    *)
(***************************************************************************)
PotsEnvBits == {"RING", "DONE_RINGING"}

PotsWords == {w \in SUBSET PotsEnvBits : Cardinality(w) <= MaxPendingBits}

PotsStep(nv, level, gen) ==
  /\ pots' = potsTaskLoop(pots, nv, pots.country, level, " ", gen)
  /\ pots'.pots_ring_num <= MaxPotsRings
  /\ pots'.pots_dial_pulse_count <= MaxPulses
  /\ UNCHANGED <<sysVars, nt, aud>>

PotsPoll ==
  \E nv \in PotsWords, level \in BOOLEAN, gen \in BOOLEAN :
    /\ gen \/ pots.pots_tone_state \in {"TONE_CID", "TONE_DTMF"}
    /\ PotsStep(nv, level, gen)

InitPots ==
  /\ \E c \in Countries, nocid \in BOOLEAN :
       /\ nocid => country_info(c).cid_type = "DTMF3"
       /\ pots = potsInit(c, nocid)
  /\ app = appInit /\ app_notify = {} /\ bt = btInit /\ bt_notify = {}
  /\ env = envInit /\ nt = ntIdle /\ aud = audInit

NextPots == PotsPoll

SpecPots == InitPots /\ [][NextPots]_vars

(***************************************************************************)
(* SpecRing: the ring generator alone, from the evaluation after            *)
(* _potsStartRing to the end of the ring sequence, for each profile of the *)
(* country table.  The period of the first ring is cadence_pairs[0] /      *)
(* POTS_EVAL_MSEC as in the source, not divided by PotsTimeScale, so that  *)
(* the ring holds whole pulses.                                            *)
(***************************************************************************)
\* history of the ring pulses: p before _potsEvalRinger, q after it.  A
\* pulse is whole when its OFF portion has run down its pulse counter.
potsPulseHistory(p, q) ==
  LET on == p.ringh.on + (IF p.pots_ring_state = "RING_PULSE_ON" THEN 1 ELSE 0)
      off == p.ringh.off + (IF p.pots_ring_state = "RING_PULSE_OFF" THEN 1 ELSE 0)
      ended == p.pots_ring_state = "RING_PULSE_OFF" /\ q.pots_ring_state # "RING_PULSE_OFF"
      whole == ended /\ (q.pots_ring_state = "RING_PULSE_ON" \/ q.pots_ring_pulse_count <= 0)
  IN [q EXCEPT !.ringh =
        [on |-> IF ended THEN 0 ELSE on,
         off |-> IF ended THEN 0 ELSE off,
         last_on |-> IF whole THEN on ELSE p.ringh.last_on,
         last_off |-> IF whole THEN off ELSE p.ringh.last_off,
         pulses |-> IF whole THEN p.ringh.pulses + 1 ELSE p.ringh.pulses,
         ticks |-> IF whole THEN p.ringh.ticks + on + off ELSE p.ringh.ticks]]

\* pots_task on-hook, _potsStartRing(false) just done for profile c
potsRinging(c) ==
  [potsStartRing(potsInit(c, FALSE), FALSE) EXCEPT
     !.pots_ring_period_count = country_info(c).cadence_pairs[1] \div POTS_EVAL_MSEC]

\* one evaluation of the ring generator
RingEval ==
  /\ pots.pots_ring_state # "RING_IDLE"
  /\ pots' = potsPulseHistory(pots, potsEvalRinger(pots))
  /\ UNCHANGED <<sysVars, nt, aud>>

InitRing ==
  /\ \E i \in 1..NUM_COUNTRIES : pots = potsRinging(CountryTable[i])
  /\ app = appInit /\ app_notify = {} /\ bt = btInit /\ bt_notify = {}
  /\ env = envInit /\ nt = ntIdle /\ aud = audInit

NextRing == RingEval

SpecRing == InitRing /\ [][NextRing]_vars

(***************************************************************************)
(* SpecLine: pots_task alone with the handset in use.  Each step is one    *)
(* pass of its loop; the service and audio events of the orchestrator, its *)
(* digits dialed on the screen, a new country, the level of the hook       *)
(* switch and the report of the DTMF detector are inputs.                  *)
(***************************************************************************)
LineCountries == {"United States", "New Zealand Rev"}

LineEnvBits == {"IN_SERVICE", "OUT_OF_SERVICE", "AUDIO_8K", "AUDIO_DIS",
                "EXT_DIAL_DIGIT", "NEW_COUNTRY"}

LineWords == {w \in SUBSET LineEnvBits : Cardinality(w) <= 1}

\* Fields that the code writes again before it reads them are not told
\* apart: the counter of a hook or dial state that has been left, the pulse
\* count outside a train, the digit already sent, and the tone timer in the
\* tone states that never test it; the length of a burst is forgotten at
\* its end.
potsForget(p) ==
  [p EXCEPT !.pots_state_count = IF p.pots_state = "ON_HOOK_PROVISIONAL" THEN @ ELSE 0,
            !.pots_dial_period_count = IF p.pots_dial_state = "DIAL_IDLE" THEN 0 ELSE @,
            !.pots_dial_pulse_count = IF p.pots_dial_state = "DIAL_IDLE" THEN 0 ELSE @,
            !.pots_dial_cur_digit = IF p.digit_dialed THEN @ ELSE " ",
            !.burst_polls = IF p.pots_tone_state = "TONE_DTMF" THEN @ ELSE 0,
            !.pots_tone_timer_count =
               IF p.pots_tone_state \in {"TONE_IDLE", "TONE_VOICE", "TONE_NO_SERVICE",
                                          "TONE_OFF_HOOK", "TONE_CID"} THEN 0 ELSE @]

\* history of the debounced hook level: p before the evaluation, q after it
potsDialHistory(p, q) ==
  LET up == q.hook_changed /\ q.pots_cur_off_hook
      down == q.hook_changed /\ ~q.pots_cur_off_hook
  IN [q EXCEPT !.make_polls = IF ~q.pots_cur_off_hook THEN 0
                              ELSE IF @ > (POTS_ROT_MAKE_MSEC \div POTS_EVAL_MSEC) + 1
                                THEN @ ELSE @ + 1,
               !.train = IF up
                           THEN IF p.hold_polls <= POTS_ROT_BREAK_MSEC \div POTS_EVAL_MSEC
                                  THEN @ + 1 ELSE 0
                         ELSE IF down
                           THEN IF p.make_polls <= POTS_ROT_MAKE_MSEC \div POTS_EVAL_MSEC
                                  THEN @ ELSE 0
                         ELSE @]

LinePoll ==
  \E nv \in LineWords, level \in BOOLEAN, dtmf \in {" ", "5"}, gen \in BOOLEAN :
    \E cc \in (IF Notification(nv, "NEW_COUNTRY") THEN LineCountries ELSE {pots.country}) :
      /\ gen \/ pots.pots_tone_state = "TONE_DTMF"
      /\ (pots.pots_tone_state = "TONE_DTMF" /\ pots.burst_polls >= MaxBurstPolls) => ~gen
      /\ pots' = potsForget(potsDialHistory(pots, potsTaskLoop(pots, nv, cc, level, dtmf, gen)))
      /\ pots'.pots_dial_pulse_count <= MaxLinePulses
      /\ pots'.train <= MaxLinePulses
      /\ UNCHANGED <<sysVars, nt, aud>>

InitLine ==
  /\ \E c \in LineCountries : pots = potsInit(c, FALSE)
  /\ app = appInit /\ app_notify = {} /\ bt = btInit /\ bt_notify = {}
  /\ env = envInit /\ nt = ntIdle /\ aud = audInit

NextLine == LinePoll

SpecLine == InitLine /\ [][NextLine]_vars

(***************************************************************************)
(* SpecCountry: pots_task and the country code of the settings store.  The *)
(* store is read when the task starts and at every notification of a new   *)
(* country; ps_set_country_code stores the byte it is given.               *)
(***************************************************************************)
\* ps_set_country_code followed by the notification of pots_task
PsSetCountry ==
  /\ pots.country # "NULL"
  /\ \E code \in 0..MaxCountryCode :
       env' = [env EXCEPT !.country_code = code, !.new_country = TRUE]
  /\ UNCHANGED <<app, app_notify, bt, bt_notify, nt, pots, aud>>

\* one pass of the loop of pots_task.  With a null profile pointer the pass
\* ends at the first use of the pointer (the log call of l.368).
CountryPoll ==
  /\ pots.country # "NULL"
  /\ \E level \in BOOLEAN :
       LET nv == IF env.new_country THEN {"NEW_COUNTRY"} ELSE {}
           cc == int_get_country_info(env.country_code)
       IN pots' = IF env.new_country /\ cc = "NULL"
                    THEN [pots EXCEPT !.country = cc]
                    ELSE potsForget(potsTaskLoop(pots, nv, cc, level, " ", TRUE))
  /\ env' = [env EXCEPT !.new_country = FALSE]
  /\ UNCHANGED <<app, app_notify, bt, bt_notify, nt, aud>>

\* the load through the null pointer is a fault of the processor: the
\* system starts again, and pots_task with it
CountryRestart ==
  /\ pots.country = "NULL"
  /\ pots' = potsInit(int_get_country_info(potsStartCountry(env.country_code)), FALSE)
  /\ env' = [env EXCEPT !.country_code = potsStartCountry(@), !.new_country = FALSE]
  /\ UNCHANGED <<app, app_notify, bt, bt_notify, nt, aud>>

InitCountry ==
  /\ \E code \in 0..MaxCountryCode :
       /\ pots = potsInit(int_get_country_info(potsStartCountry(code)), FALSE)
       /\ env = [envInit EXCEPT !.country_code = potsStartCountry(code)]
  /\ app = appInit /\ app_notify = {} /\ bt = btInit /\ bt_notify = {}
  /\ nt = ntIdle /\ aud = audInit

NextCountry == PsSetCountry \/ CountryPoll \/ CountryRestart

SpecCountry == InitCountry /\ [][NextCountry]_vars

(***************************************************************************)
(* SpecPower: gcore_task alone.  A fatal error of the start-up puts up the *)
(* message box "Internal Error Occurred ... Click OK to shut down"; its    *)
(* button sends GCORE_NOTIFY_SHUTOFF_MASK.  power_init failing puts the    *)
(* task in its first loop, the codec failing (audio_task) leaves it in the *)
(* main loop.  GCORE_BATT_MON_MSEC is set in power_utilities.h; the number *)
(* of passes between two runs of the battery monitor is drawn from         *)
(* BattMonSteps.                                                           *)
(***************************************************************************)
MaxBattMonSteps == 3

MaxPowerRequests == 2

BattMonSteps == 1..MaxBattMonSteps

\* gui_set_msgbox_btn: the button of the message box of the fatal error
GuiDismiss ==
  /\ env.gcore.loop = "fatal" \/ env.gcore.codec_failed
  /\ env.gcore.loop # "off"
  /\ env.gcore.requests < MaxPowerRequests
  /\ env' = [env EXCEPT !.gcore.notify = @ \cup {"SHUTOFF"},
                        !.gcore.requests = @ + 1]
  /\ UNCHANGED <<app, app_notify, bt, bt_notify, nt, pots, aud>>

\* gui_task, app_task and the settings screen: the other two bits
GcoreNotify ==
  /\ env.gcore.loop # "off"
  /\ \E b \in {"ACTIVITY", "BRGHT_UPD"} :
       /\ b \notin env.gcore.notify
       /\ env' = [env EXCEPT !.gcore.notify = @ \cup {b}]
  /\ UNCHANGED <<app, app_notify, bt, bt_notify, nt, pots, aud>>

\* one pass of the loop of gcore_task after power_init failed
GcoreFatalPoll ==
  /\ env.gcore.loop = "fatal"
  /\ env' = [env EXCEPT !.gcore = gcoreFatalLoop(@)]
  /\ UNCHANGED <<app, app_notify, bt, bt_notify, nt, pots, aud>>

\* one pass of the main loop of gcore_task
GcorePoll ==
  /\ env.gcore.loop = "normal"
  /\ \E button \in BOOLEAN, crit \in BOOLEAN :
       env' = [env EXCEPT !.gcore = gcoreLoop(@, button, crit)]
  /\ UNCHANGED <<app, app_notify, bt, bt_notify, nt, pots, aud>>

InitPower ==
  /\ \E power_ok \in BOOLEAN, codec_ok \in BOOLEAN, st \in BattMonSteps :
       env = [envInit EXCEPT
                !.gcore.loop = IF power_ok THEN "normal" ELSE "fatal",
                !.gcore.codec_failed = ~codec_ok,
                !.gcore.steps = st]
  /\ app = appInit /\ app_notify = {} /\ bt = btInit /\ bt_notify = {}
  /\ nt = ntIdle /\ aud = audInit
  /\ pots = potsInit(int_get_country_info(INT_DEFAULT_COUNTRY), FALSE)

NextPower == GuiDismiss \/ GcoreNotify \/ GcoreFatalPoll \/ GcorePoll

SpecPower == InitPower /\ [][NextPower]_vars

(***************************************************************************)
(* SpecCall: app_task and pots_task with incoming calls.  The environment  *)
(* is bt_task and the cellphone (service, ring events, start and end of a  *)
(* call), the dial button of the GUI and the hook switch.  A ring event is *)
(* sent to both tasks by the callback of the stack (bt_task.c:478-483).    *)
(***************************************************************************)
MaxCallEvents == 2

CallEnvBits ==
  {"BT_IN_SERVICE", "BT_OUT_OF_SERVICE", "BT_CALL_STARTED", "BT_CALL_ENDED",
   "GUI_DIAL_BTN_PRESSED"}

\* app_task and pots_task are at rest between two calls
CallAtRest ==
  /\ app.state = "CONNECTED_IDLE" /\ app.ring_count = 0
  /\ app_notify = {} /\ env.pots_notify = {}
  /\ pots.pots_ring_state = "RING_IDLE" /\ pots.pots_cid_state = "CID_IDLE"
  /\ pots.pots_state = "ON_HOOK"

\* bt_task or gui_task sets one bit of app_task
CallEvent ==
  /\ env.call_events < MaxCallEvents
  /\ \E b \in CallEnvBits :
       /\ b \notin app_notify
       /\ app_notify' = app_notify \cup {b}
  /\ env' = [env EXCEPT !.call_events = @ + 1]
  /\ UNCHANGED <<app, bt, bt_notify, nt, pots, aud>>

\* _bt_hf_client_cb, ESP_HF_CLIENT_RING_IND_EVT, with the service level
\* connection up
CallRing ==
  /\ app.bt_in_service /\ "BT_OUT_OF_SERVICE" \notin app_notify
  /\ app.ring_count < MaxRingCount
  /\ "BT_RING" \notin app_notify
  /\ app_notify' = app_notify \cup {"BT_RING"}
  /\ env' = [env EXCEPT !.pots_notify = @ \cup {"RING"},
                        !.first_ring = CallAtRest]
  /\ UNCHANGED <<app, bt, bt_notify, nt, pots, aud>>

\* the user lifts or replaces the handset
CallHook ==
  /\ env.call_events < MaxCallEvents
  /\ env' = [env EXCEPT !.off_hook = ~@, !.call_events = @ + 1]
  /\ UNCHANGED <<app, app_notify, bt, bt_notify, nt, pots, aud>>

\* one pass of the loop of app_task
CallAppPoll ==
  /\ app' = appDelivered(appTaskLoop(app, app_notify))
  /\ app_notify' = {}
  /\ env' = [env EXCEPT !.pots_notify =
               @ \cup BitsFor(appTaskLoop(app, app_notify).sent, "pots")]
  /\ UNCHANGED <<bt, bt_notify, nt, pots, aud>>

\* one pass of the loop of pots_task
CallPotsPoll ==
  /\ \E gen \in BOOLEAN :
       /\ gen \/ pots.pots_tone_state \in {"TONE_CID", "TONE_DTMF"}
       /\ pots' = potsForget(potsTaskLoop(pots, env.pots_notify, pots.country,
                                          env.off_hook, " ", gen))
  /\ pots'.pots_ring_num <= MaxPotsRings
  /\ app_notify' = app_notify \cup BitsFor(pots'.sent, "app")
  /\ app' = IF pots'.digit_dialed
              THEN [app EXCEPT !.new_pots_digit = pots'.pots_dial_cur_digit]
              ELSE app
  /\ env' = [env EXCEPT !.pots_notify = {}, !.first_ring = FALSE]
  /\ UNCHANGED <<bt, bt_notify, nt, aud>>

InitCall ==
  /\ app = appInit /\ app_notify = {} /\ bt = btInit /\ bt_notify = {}
  /\ env = envInit /\ nt = ntIdle /\ aud = audInit
  /\ pots = potsIdle

NextCall == CallEvent \/ CallRing \/ CallHook \/ CallAppPoll \/ CallPotsPoll

SpecCall == InitCall /\ [][NextCall]_vars

(***************************************************************************)
(* SpecTone: pots_task and audio_task together.  pots_task runs its loop   *)
(* with the service, audio, digit and ring events sent to it and the level *)
(* of the hook switch as inputs; the bits it sets for audio_task stay      *)
(* pending                                                                 *)
(* until audio_task calls _audioHandleNotifications, in its outer loop     *)
(* every 10 msec while the stream is off and after every I2S event while   *)
(* the stream runs.                                                        *)
(***************************************************************************)
MaxToneEvents == 4

ToneEnvBits == {"IN_SERVICE", "OUT_OF_SERVICE", "AUDIO_8K", "AUDIO_16K", "AUDIO_DIS",
                "EXT_DIAL_DIGIT", "RING"}

\* xTaskNotify(task_handle_pots, <bit>, eSetBits) from app_task
ToneEvent ==
  /\ env.call_events < MaxToneEvents
  /\ \E b \in ToneEnvBits \ env.pots_notify :
       env' = [env EXCEPT !.pots_notify = @ \cup {b}, !.call_events = @ + 1]
  /\ UNCHANGED <<appVars, btVars, nt, pots, aud>>

\* the handset is lifted or put down
ToneHook ==
  /\ env.call_events < MaxToneEvents
  /\ env' = [env EXCEPT !.off_hook = ~@, !.call_events = @ + 1]
  /\ UNCHANGED <<appVars, btVars, nt, pots, aud>>

\* one pass of the loop of pots_task; its notifications of audio_task are
\* or-ed into the pending word
TonePotsPoll ==
  /\ \E gen \in BOOLEAN :
       /\ gen \/ pots.pots_tone_state \in {"TONE_CID", "TONE_DTMF"}
       /\ pots' = potsForget(potsTaskLoop(pots, env.pots_notify, pots.country,
                                          env.off_hook, " ", gen))
  /\ aud' = [aud EXCEPT !.notify = @ \cup BitsFor(pots'.sent, "audio")]
  /\ env' = [env EXCEPT !.pots_notify = {}]
  /\ UNCHANGED <<appVars, btVars, nt>>

InitTone ==
  /\ app = appInit /\ app_notify = {} /\ bt = btInit /\ bt_notify = {}
  /\ env = envInit /\ nt = ntIdle /\ aud = audInit
  /\ pots = potsIdle

NextTone ==
  \/ ToneEvent \/ ToneHook \/ TonePotsPoll
  \/ StreamIdlePoll \/ StreamStart \/ StreamOtherEvent \/ StreamStop

SpecTone == InitTone /\ [][NextTone]_vars

(***************************************************************************)
(* Properties of the line signalling (SpecPots)                            *)
(***************************************************************************)
PotsHoldPolls == POTS_ON_HOOK_DETECT_MSEC \div POTS_EVAL_MSEC

PotsHookEvents == {<<"app", "POTS_ON_HOOK">>, <<"app", "POTS_OFF_HOOK">>}

\* C5: the hook state machine enters the final ON_HOOK state and sends the
\* on-hook event only from ON_HOOK_PROVISIONAL and only when the debounced
\* level has been on-hook for 50 consecutive evaluations; an on-hook
\* interval that ends sooner goes back to OFF_HOOK and sends no hook event
C5_OnHookOnlyAfterHold ==
  [][/\ (<<"app", "POTS_ON_HOOK">> \in pots'.sent
           \/ (pots.pots_state # "ON_HOOK" /\ pots'.pots_state = "ON_HOOK"))
          => /\ pots.pots_state = "ON_HOOK_PROVISIONAL"
             /\ pots'.pots_state = "ON_HOOK"
             /\ pots'.hold_polls >= PotsHoldPolls
             /\ <<"app", "POTS_ON_HOOK">> \in pots'.sent
     /\ (pots.pots_state = "ON_HOOK_PROVISIONAL" /\ pots'.pots_state = "OFF_HOOK")
          => pots'.sent \cap PotsHookEvents = {}]_vars

\* the on-hook event is sent after a rotary pulse was counted without one
C5_Witness ==
  /\ <<"app", "POTS_ON_HOOK">> \in pots.sent
  /\ pots.pots_state = "ON_HOOK"
  /\ pots.pots_dial_pulse_count >= 1

\* C6: once the handset is detected off-hook the ring generator is idle with
\* ring mode and line reversal de-asserted, the ring counter is 0, no ring
\* trigger is left pending and no ring is started, whatever the ring state
\* was before
C6_OffHookAbortsRinging ==
  pots.pots_state = "OFF_HOOK"
    => /\ pots.pots_ring_state = "RING_IDLE"
       /\ ~pots.line_rm /\ ~pots.line_reverse
       /\ pots.pots_ring_num = 0
       /\ pots.ring_started = "none"
       /\ ~pots.pots_trigger_pots_ring /\ ~pots.pots_trigger_cid_ring

\* going off-hook has ended a ring in the middle of a pulse
C6_Witness ==
  /\ pots.pots_state = "OFF_HOOK"
  /\ pots.ring_aborted = "RING_PULSE_ON"
  /\ pots.pots_ring_period_count > 0

C8_MessageBeforeSecondRing ==
  (/\ potsCidEnabled(pots) /\ ~potsInfo(pots).before_ring
   /\ pots.ring_started = "normal" /\ pots.rings_in_call = 2)
    => (/\ pots.ring_start_cid \notin {"CID_MSG"}
        /\ pots.ring_start_tone # "TONE_CID"
        /\ pots.ring_start_msg)

PotsNoMessage(p) ==
  p.cid_len_zero /\ potsInfo(p).cid_type \in {"DTMF3", "DTMF4"}

\* C9: without a caller number and with a DTMF standard that has no absence
\* encoding, no Caller ID sequence is started and no message is transmitted;
\* for a before-ring standard the evaluation that skips the message sets the
\* ring trigger, and the next evaluation starts the ring if the handset is
\* still on-hook and the ring generator idle
C9_SkippedMessageStillRings ==
  [][/\ PotsNoMessage(pots')
          => /\ pots'.pots_cid_state = "CID_IDLE"
             /\ pots'.pots_tone_state # "TONE_CID"
             /\ ~pots'.cid_started
     /\ (pots'.cid_skipped /\ potsInfo(pots').before_ring)
          => pots'.pots_trigger_pots_ring
     /\ (/\ pots.cid_skipped /\ potsInfo(pots).before_ring
         /\ pots.pots_ring_state = "RING_IDLE" /\ pots'.pots_state = "ON_HOOK")
          => pots'.ring_started = "normal"]_vars

\* the ring that follows a skipped message has started
C9_Witness ==
  /\ PotsNoMessage(pots) /\ potsInfo(pots).before_ring
  /\ pots.ring_started = "normal" /\ pots.rings_in_call = 1
  /\ pots.pots_ring_state = "RING_PULSE_ON"


(***************************************************************************)
(* Properties of dialling and of the tones on the line (SpecLine)          *)
(***************************************************************************)
\* the digit of country c for a train of n pulses: '0' + rotary_map[n-1]
RotaryMapDigit(c, n) ==
  <<"0", "1", "2", "3", "4", "5", "6", "7", "8", "9">>[country_info(c).rotary_map[n] + 1]

\* a train of pulses has been followed by more than 100 ms off-hook
TrainEnds ==
  /\ pots.train >= 1
  /\ pots.make_polls = (POTS_ROT_MAKE_MSEC \div POTS_EVAL_MSEC) + 1

\* C14: a train of n rotary pulses, each break and each make between two
\* pulses no longer than 100 ms, followed by a make longer than 100 ms gives
\* exactly one digit report, in the evaluation that ends the 100 ms, with the
\* value rotary_map[n-1] of the active country, and no rotary digit is
\* reported at any other moment
C14_TrainGivesOneDigit ==
  [][/\ TrainEnds
          => /\ pots'.report_src = "rotary"
             /\ <<"app", "POTS_DIGIT_DIALED">> \in pots'.sent
             /\ pots'.pots_dial_cur_digit = RotaryMapDigit(pots'.country, pots.train)
     /\ pots'.report_src = "rotary" => TrainEnds]_vars


ToneListening == {"TONE_DIAL", "TONE_DIAL_QUIET"}

\* C16: the DTMF detector is given received audio only in evaluations that
\* begin in TONE_DIAL or TONE_DIAL_QUIET; in an evaluation that begins in any
\* other tone state the detector gets no audio, latches no digit, and no DTMF
\* digit is reported
C16_DtmfOnlyWhileListening ==
  [][/\ pots'.dtmf_fed => pots.pots_tone_state \in ToneListening
     /\ pots.pots_tone_state \notin ToneListening
          => /\ ~pots'.dtmf_fed
             /\ pots'.pots_dial_last_dtmf_digit \in {" ", pots.pots_dial_last_dtmf_digit}
             /\ pots'.report_src # "dtmf"]_vars


\* POTS_TONE_FLUSH_MSEC / POTS_EVAL_MSEC and POTS_CID_FLUSH_MSEC / POTS_EVAL_MSEC
ToneFlushPolls == POTS_TONE_FLUSH_MSEC \div POTS_EVAL_MSEC
CidFlushPolls == POTS_CID_FLUSH_MSEC \div POTS_EVAL_MSEC

\* the tone states in which a tone or a burst is generated
ToneGenerating == {"TONE_DIAL", "TONE_DTMF", "TONE_NO_SERVICE", "TONE_OFF_HOOK", "TONE_CID"}

\* C17: a DTMF burst and a Caller ID burst are never followed directly by a
\* state that listens for dialing or generates a tone; their flush state is
\* entered with the full settle period on the timer and is left only in the
\* evaluation in which that period has run out, so that no listening state
\* and no new tone or burst begins before
C17_FlushAlwaysComplete ==
  [][/\ (pots.pots_tone_state = "TONE_DTMF" /\ pots'.pots_tone_state # "TONE_DTMF")
          => pots'.pots_tone_state \notin ToneListening \cup ToneGenerating
     /\ (pots.pots_tone_state = "TONE_CID" /\ pots'.pots_tone_state # "TONE_CID")
          => pots'.pots_tone_state = "TONE_CID_FLUSH"
     /\ (pots.pots_tone_state # "TONE_DTMF_FLUSH" /\ pots'.pots_tone_state = "TONE_DTMF_FLUSH")
          => pots.pots_tone_state = "TONE_DTMF" /\ pots'.pots_tone_timer_count = ToneFlushPolls
     /\ (pots.pots_tone_state # "TONE_CID_FLUSH" /\ pots'.pots_tone_state = "TONE_CID_FLUSH")
          => pots.pots_tone_state = "TONE_CID" /\ pots'.pots_tone_timer_count = CidFlushPolls
     /\ (pots.pots_tone_state = "TONE_DTMF_FLUSH" /\ pots'.pots_tone_state # "TONE_DTMF_FLUSH")
          => pots.pots_tone_timer_count = 1 /\ pots'.pots_tone_state = "TONE_DIAL_QUIET"
     /\ (pots.pots_tone_state = "TONE_CID_FLUSH" /\ pots'.pots_tone_state # "TONE_CID_FLUSH")
          => pots.pots_tone_timer_count = 1 /\ pots'.pots_tone_state = "TONE_IDLE"]_vars


\* the tone states that the off-hook timeout escalates to the alarm
ToneTimed == {"TONE_DIAL", "TONE_DIAL_QUIET", "TONE_DTMF"}

\* the off-hook timeout of the active country in evaluations
OffHookPolls(p) == PotsOffHookCount(potsInfo(p).off_hook_timeout)

\* C19: in TONE_DIAL, TONE_DIAL_QUIET and TONE_DTMF the timer is started with
\* the off-hook timeout of the active country and counts the evaluations; when
\* it runs out with the handset off-hook, in service, without call audio and
\* without a digit from the screen, the tone state machine enters
\* TONE_OFF_HOOK; and every digit dialed restarts the timeout: after an
\* evaluation that reports a digit of the phone in one of the three states,
\* the country being the same, the timer holds the full timeout again
C19_OffHookTimeout ==
  [][/\ (pots'.pots_tone_state \in ToneTimed /\ pots'.pots_tone_state # pots.pots_tone_state)
          => pots'.pots_tone_timer_count = OffHookPolls(pots')
     /\ (pots.pots_tone_state \in ToneTimed /\ pots'.pots_tone_state = pots.pots_tone_state
           /\ pots.pots_tone_timer_count > 0 /\ ~pots'.digit_dialed)
          => pots'.pots_tone_timer_count = pots.pots_tone_timer_count - 1
     /\ (pots.pots_tone_state \in ToneTimed /\ pots.pots_tone_timer_count = 1
           /\ pots'.pots_state = "OFF_HOOK" /\ pots'.pots_in_service
           /\ ~pots'.pots_has_call_audio
           /\ pots'.pots_tone_state \notin {"TONE_DTMF", "TONE_DTMF_FLUSH", "TONE_DIAL_QUIET"})
          => pots'.pots_tone_state = "TONE_OFF_HOOK"
     /\ (pots'.digit_dialed /\ pots'.pots_tone_state \in ToneTimed
           /\ pots'.country = pots.country)
          => pots'.pots_tone_timer_count = OffHookPolls(pots')]_vars

\* C20: while the off-hook timeout of the active country is 0 the tone state
\* machine never enters TONE_OFF_HOOK, from whichever tone state
C20_NoAlarmWithoutTimeout ==
  [][(pots'.pots_tone_state = "TONE_OFF_HOOK" /\ pots.pots_tone_state # "TONE_OFF_HOOK")
       => potsInfo(pots').off_hook_timeout # 0]_vars

(***************************************************************************)
(* Properties of the keypad during a call (SpecKeys)                       *)
(***************************************************************************)
\* C18: in an active voice call every press of a key of the screen gives
\* exactly one DTMF tone: once no press is waiting in the notification words
\* of app_task and bt_task, as many tones have been sent as keys pressed
C18_EachPressOneTone ==
  ("GUI_DIGIT_DIALED" \notin app_notify /\ "DIAL_DTMF" \notin bt_notify)
    => env.tones = env.presses

GainPending ==
  \/ app_notify \cap AppGainBits # {}
  \/ bt_notify \cap BtGainBits # {}
  \/ env.gui.notify # {}

\* C22: a gain change never re-triggers itself.  A change made on the screen
\* is applied to the codec and passed to bt_task, and causes no update event
\* to the screen; a change reported by the remote device is applied and
\* shown on the screen, and causes no notification to bt_task and no volume
\* update to the remote device; the loops of bt_task and gui_task send no
\* gain notification to app_task.  So the notifications are bounded by the
\* changes: at most one to bt_task and one volume update per change of the
\* screen, at most one to gui_task per change of the remote device.
C22_GainSyncNoEcho ==
  /\ env.gui.to_gui <= env.gui.bt_changes
  /\ env.gui.to_bt <= env.gui.gui_changes
  /\ env.gui.vol <= env.gui.to_bt
  /\ env.gui.to_app = 0

\* one change of each origin has been carried through: the change of the
\* screen has reached the remote device, that of the remote device the screen
C22_Witness ==
  /\ ~GainPending
  /\ env.gui.gui_changes = 1 /\ env.gui.bt_changes = 1
  /\ env.gui.to_bt = 1 /\ env.gui.vol = 1 /\ env.gui.to_gui = 1
  /\ app.codec_mic_gain = "low" /\ app.ps_mic_gain = "low"
  /\ env.gui.cur_spk_gain = "low" /\ app.codec_spk_gain = "low"

(***************************************************************************)
(* Properties of the audio stream (SpecStream, SpecGet)                    *)
(***************************************************************************)
AlignReset ==
  /\ aud.i2s_tx_buf_push = 3 * I2S_SAMPLES
  /\ aud.i2s_tx_buf_pop = 0
  /\ aud.i2s_tx_buf_count = 0

\* C23 as stated: after a pass of _audioHandleNotifications that has
\* switched the source, the TX alignment queue is reset and the upsample
\* filter memory is clear if the source is voice (8 or 16 kHz), and the DC
\* restoration state is reset if the source is tone.
C23_SwitchResetsState ==
  aud.switched =>
    IF aud.audio_mux_to_tone THEN aud.dc_clean
    ELSE AlignReset /\ aud.us_clean

\* C23 amended: after a pass of _audioHandleNotifications that has switched
\* the source, the TX alignment queue is reset if the source is voice, the
\* upsample filter memory is clear if it is voice at 16 kHz, and the DC
\* restoration state is reset if it is tone.
C23_SwitchResetsStateInUse ==
  aud.switched =>
    IF aud.audio_mux_to_tone THEN aud.dc_clean
    ELSE AlignReset /\ (aud.ext_sr_16k => aud.us_clean)

\* the stream, running with voice and samples in the alignment queue, has
\* been switched to voice at the other rate
C23_Witness ==
  /\ aud.switched /\ aud.pc = "stream" /\ aud.audio_restart
  /\ ~aud.audio_mux_to_tone /\ aud.stream_mode = <<FALSE, ~aud.ext_sr_16k>>
  /\ aud.rx.count > 0

\* C24: while the streaming loop goes on, the source and the sample rate are
\* those the stream was primed with after the last _audioInitBuffers: a
\* command for another source or rate makes the loop unwind and the buffers
\* be initialised before streaming resumes.
C24_NewModeAfterReinit ==
  StreamRunning => aud.stream_mode = <<aud.audio_mux_to_tone, aud.ext_sr_16k>>

\* C25: the count of the TX alignment queue is never negative and never
\* above the capacity of the queue.
C25_AlignCountInBounds ==
  0 <= aud.i2s_tx_buf_count /\ aud.i2s_tx_buf_count <= TX_ALIGN_SAMPLES

\* C26: a call of audioGetToneRx or audioGetVoiceRx for len samples returns
\* the number of samples copied from the buffer, which is the smaller of len
\* and the number of valid samples the caller could get (none when the
\* stream is disabled or the other source is selected), and the rest of
\* the caller's buffer is zeroed.
C26_GetReturnsAvailable ==
  aud.get.called =>
    /\ aud.get.ret = aud.get.copied
    /\ aud.get.copied = (IF aud.get.len > aud.get.avail THEN aud.get.avail
                                                         ELSE aud.get.len)
    /\ aud.get.zeroed = aud.get.len - aud.get.copied

(***************************************************************************)
(* Properties of the ring generator (SpecPots)                             *)
(***************************************************************************)

\* C27: after every evaluation of pots_task, ring mode is asserted on the
\* line interface exactly when the ring state is RING_PULSE_ON or
\* RING_PULSE_OFF; it is off in RING_STEP_WAIT and in RING_IDLE.
C27_RingModeWhilePulsing ==
  pots.line_rm <=> (pots.pots_ring_state \in {"RING_PULSE_ON", "RING_PULSE_OFF"})

\* the generator waits between two rings of a cadence, ring mode off
C27_Witness ==
  /\ pots.pots_ring_state = "RING_STEP_WAIT"
  /\ ~pots.line_rm
  /\ pots.pots_ring_num > 0

\* |ticks * POTS_EVAL_MSEC - k * 1000 / f| multiplied by f: the deviation of
\* ticks evaluations from k periods of the ring frequency f
RingDeviation(ticks, k, f) ==
  IF ticks * POTS_EVAL_MSEC * f >= k * 1000
    THEN ticks * POTS_EVAL_MSEC * f - k * 1000
    ELSE k * 1000 - ticks * POTS_EVAL_MSEC * f

\* C28: a whole ring pulse (ON portion and OFF portion) takes a number of
\* 10 ms evaluations that differs from 1000/f ms by less than one
\* evaluation; the ON portion is half the period rounded down and the
\* remainder is in the OFF portion; the whole pulses of a ring sequence
\* together deviate no more than each of them does times their number.
C28_RingPulsePeriod ==
  pots.ringh.pulses > 0 =>
    /\ RingDeviation(pots.ringh.last_on + pots.ringh.last_off, 1, potsInfo(pots).freq)
         < POTS_EVAL_MSEC * potsInfo(pots).freq
    /\ pots.ringh.last_on = ((1000 \div potsInfo(pots).freq) \div 2) \div POTS_EVAL_MSEC
    /\ pots.ringh.last_off \in {pots.ringh.last_on, pots.ringh.last_on + 1}
    /\ RingDeviation(pots.ringh.ticks, pots.ringh.pulses, potsInfo(pots).freq)
         <= pots.ringh.pulses
              * RingDeviation(pots.ringh.last_on + pots.ringh.last_off, 1,
                              potsInfo(pots).freq)

\* two whole pulses at 20 Hz: half the period is not a whole number of
\* evaluations, the OFF portion is one evaluation longer
C28_Witness ==
  /\ pots.ringh.pulses >= 2
  /\ potsInfo(pots).freq = 20
  /\ pots.ringh.last_off = pots.ringh.last_on + 1

(***************************************************************************)
(* Properties of the tones without service (SpecLine)                      *)
(***************************************************************************)

\* the evaluation leaves TONE_IDLE with the handset off-hook, no service and
\* no call audio: the tone state entered is TONE_NO_SERVICE
NoServiceFromIdle ==
  (/\ pots.pots_tone_state = "TONE_IDLE"
   /\ pots'.pots_tone_state # "TONE_IDLE"
   /\ pots'.pots_state = "OFF_HOOK"
   /\ ~pots'.pots_in_service /\ ~pots'.pots_has_call_audio)
    => pots'.pots_tone_state = "TONE_NO_SERVICE"

\* C29 as claimed: off-hook without service the tone state goes from
\* TONE_IDLE to TONE_NO_SERVICE, and TONE_NO_SERVICE is left only for
\* TONE_IDLE with the handset on-hook.
C29_ReorderUntilOnHook ==
  [][/\ NoServiceFromIdle
     /\ (pots.pots_tone_state = "TONE_NO_SERVICE"
           /\ pots'.pots_tone_state # "TONE_NO_SERVICE")
          => (pots'.pots_tone_state = "TONE_IDLE" /\ pots'.pots_state = "ON_HOOK")]_vars

\* C29: off-hook without service the tone state goes from TONE_IDLE to
\* TONE_NO_SERVICE; TONE_NO_SERVICE is left for TONE_IDLE with the handset
\* on-hook, or for TONE_DIAL when the service has come while off-hook, and
\* for no other state.
C29_ReorderUntilOnHookOrService ==
  [][/\ NoServiceFromIdle
     /\ (pots.pots_tone_state = "TONE_NO_SERVICE"
           /\ pots'.pots_tone_state # "TONE_NO_SERVICE")
          => \/ (pots'.pots_tone_state = "TONE_IDLE" /\ pots'.pots_state = "ON_HOOK")
             \/ (pots'.pots_tone_state = "TONE_DIAL" /\ pots'.pots_in_service)]_vars

\* the handset is off-hook without service and the re-order tone has been
\* started in this evaluation
C29_Witness ==
  /\ pots.pots_tone_state = "TONE_NO_SERVICE"
  /\ pots.pots_state = "OFF_HOOK"
  /\ ~pots.pots_in_service
  /\ <<"audio", "EN_TONE">> \in pots.sent

(***************************************************************************)
(* Properties of the dial buffer (SpecDial)                                *)
(***************************************************************************)

\* the number dialled has 0 to APP_MAX_DIALED_DIGITS digits and is empty in
\* CONNECTED_IDLE
DialBufferBounded ==
  /\ Len(app.dialing_num) \in 0..APP_MAX_DIALED_DIGITS
  /\ (app.state = "CONNECTED_IDLE" => app.dialing_num = <<>>)

\* C30: after any digits, deletions and call completions the dial buffer
\* holds 0 to 256 digits and the null terminator at its length, and it is
\* empty whenever the orchestrator is back in CONNECTED_IDLE.
C30_DialBufferTerminated ==
  /\ DialBufferBounded
  /\ app.dialing_nul

(***************************************************************************)
(* The power-off request after a fatal error of the start-up               *)
(***************************************************************************)
\* C31: after power_init or the codec failed, every power-off request sent
\* to gcore_task is answered: the request the task has read is not
\* forgotten before power_off has run.
C31_PowerOffAnswered == ~env.gcore.dropped

\* the request is answered in the loop entered when power_init failed
C31_PowerOffAnsweredFatalLoop ==
  env.gcore.loop = "fatal" => ~env.gcore.dropped

(***************************************************************************)
(* Out of service: the orchestrator is DISCONNECTED                        *)
(***************************************************************************)
\* C32: at the end of every evaluation of app_task made with bt_in_service
\* false the state is DISCONNECTED and only the entry actions of
\* DISCONNECTED have run, whatever the state before and the other events of
\* the pass.
C32_OutOfServiceDisconnected ==
  ~app.bt_in_service =>
     /\ app.state = "DISCONNECTED"
     /\ <<"pots", "IN_SERVICE">> \notin app.sent
     /\ <<"bt", "HANGUP_CALL">> \notin app.sent

(***************************************************************************)
(* The hang-up request of app_task in bt_task                              *)
(***************************************************************************)
\* the pass of bt_task that reads BT_NOTIFY_HANGUP_CALL_MASK ends the call:
\* it calls esp_hf_client_reject_call, or the call was being ended already
\* (BT_WAIT_END), or the pass found the service lost or the active call over
HangupActedOn(b, r) ==
  \/ "reject_call" \in r.calls
  \/ r.state = "BT_DISCONNECTED"
  \/ b.state = "BT_WAIT_END"
  \/ b.state = "BT_CALL_ACTIVE" /\ r.state = "BT_CONNECTED_IDLE"
  \/ b.state = "BT_DISCONNECTED"

\* C33: every hang-up request app_task sends is acted on by the pass of
\* bt_task that reads it, in whichever state of bt_task and whatever other
\* bits the pass reads: the command that ends the call goes to the
\* cellphone.
C33_HangupActedOn ==
  [][("HANGUP_CALL" \in bt_notify /\ bt_notify' = {})
       => HangupActedOn(bt, btTaskLoop(bt, bt_notify))]_vars

\* app_task does not wait in CALL_WAIT_END, with nothing pending, for the
\* end of a call that bt_task is not ending
C33_NoWaitForLostHangup ==
  ~(/\ app.state = "CALL_WAIT_END" /\ app.bt_in_call
    /\ bt.state = "BT_CALL_ACTIVE" /\ bt.bt_in_call
    /\ app_notify = {} /\ bt_notify = {})

(***************************************************************************)
(* Rings and the Caller-ID sequence                                        *)
(***************************************************************************)
\* C34: while the Caller-ID sequence is in CID_PRE_MSG_WAIT, CID_MSG or
\* CID_POST_MSG_WAIT the ring generator starts no ring: a ring event of
\* that time waits until the sequence is back in CID_IDLE.
C34_NoRingDuringCallerId ==
  pots.ring_started = "normal" =>
    pots.ring_start_cid \notin {"CID_PRE_MSG_WAIT", "CID_MSG", "CID_POST_MSG_WAIT"}

\* C35: when pots_task processes the first ring event of a new incoming
\* call, pots_ring_num is 0, whichever way the call before ended.
C35_FirstRingCounterZero ==
  [][(env.first_ring /\ "RING" \in env.pots_notify /\ env'.pots_notify = {})
       => pots.pots_ring_num = 0]_vars

\* C36: within one incoming call, from its first ring event until the ring
\* counter is next reset, the Caller-ID message is transmitted at most once,
\* whatever ring events arrive during the sequence or a ring.
C36_OneMessagePerCall == pots.cids_in_call <= 1

(***************************************************************************)
(* Service as app_task and bt_task see it                                  *)
(***************************************************************************)
\* nothing is pending for either task and a further pass of either loop
\* leaves its state as it is
SysAtRest ==
  /\ app_notify = {} /\ bt_notify = {}
  /\ btTaskLoop(bt, {}).state = bt.state
  /\ appTaskLoop(app, {}).state = app.state

\* C37: whenever nothing is pending for app_task and bt_task has stopped
\* changing state, app_task is in DISCONNECTED exactly when bt_task is in
\* BT_DISCONNECTED, and its bt_in_service equals that of bt_task, whatever
\* the order and timing of the in-service and out-of-service events.
C37_ServiceAgrees ==
  SysAtRest =>
    /\ (app.state = "DISCONNECTED") <=> (bt.state = "BT_DISCONNECTED")
    /\ app.bt_in_service = bt.bt_in_service

(***************************************************************************)
(* Properties of the source selection (SpecTone)                           *)
(***************************************************************************)
ToneAudioOff == pots.pots_tone_state \in {"TONE_IDLE", "TONE_VOICE_WAIT_HANGUP"}

\* the source audio_task has selected, as the bit that asks for it
ToneAudioSource ==
  IF ~aud.audio_enabled THEN "DISABLE"
  ELSE IF aud.audio_mux_to_tone THEN "EN_TONE"
  ELSE IF aud.ext_sr_16k THEN "EN_VOICE_16"
  ELSE "EN_VOICE_8"

\* C38: once audio_task has consumed all pending notifications, its stream
\* is disabled exactly when the tone state is TONE_IDLE or
\* TONE_VOICE_WAIT_HANGUP, and otherwise its source is the one the tone
\* state machine asked for last, also when a disable and an enable were
\* both sent between two polls of audio_task
C38_SourceAsRequested ==
  aud.notify = {} =>
    /\ ~aud.audio_enabled <=> ToneAudioOff
    /\ ToneAudioSource = pots.audio_req

\* the tone state machine by itself: the last request is a disable exactly
\* in the two states without audio
C38_RequestMatchesToneState == (pots.audio_req = "DISABLE") <=> ToneAudioOff

\* the handset is finally on-hook and no Caller ID is triggered or under way
ToneHungUp(p) ==
  /\ p.pots_state = "ON_HOOK"
  /\ p.pots_cid_state = "CID_IDLE" /\ ~p.pots_trigger_cid
  /\ p.pots_tone_state # "TONE_CID"

\* evaluations of _potsEvalToneState left until TONE_IDLE for a handset that
\* stays on-hook
ToneHangRank(p) ==
  CASE p.pots_tone_state = "TONE_IDLE" -> 0
    [] p.pots_tone_state \in {"TONE_VOICE", "TONE_VOICE_WAIT_HANGUP", "TONE_OFF_HOOK"} -> 1
    [] p.pots_tone_state \in {"TONE_DIAL_QUIET", "TONE_DTMF"} -> 2
    [] p.pots_tone_state = "TONE_DIAL" -> IF p.pots_in_service THEN 3 ELSE 2
    [] p.pots_tone_state = "TONE_NO_SERVICE" -> IF p.pots_in_service THEN 4 ELSE 1
    [] p.pots_tone_state = "TONE_DTMF_FLUSH" -> 2 + p.pots_tone_timer_count
    [] p.pots_tone_state = "TONE_CID_FLUSH" -> p.pots_tone_timer_count
    [] OTHER -> 0

ToneHangBound == 4 + (POTS_CID_FLUSH_MSEC \div POTS_EVAL_MSEC)

\* one more pass of pots_task with the switch on-hook and the word nv
\* pending for it
ToneHangPass(nv, gen) ==
  potsForget(potsTaskLoop(pots, nv, pots.country, FALSE, " ", gen))

ToneHangWords == {w \in SUBSET ToneEnvBits : Cardinality(w) <= 1}

\* C39: with the handset finally on-hook, staying on-hook, and no Caller ID
\* pending, every evaluation brings the tone state machine nearer to
\* TONE_IDLE, which it reaches within ToneHangBound evaluations from every
\* tone state; once there it stays there, whatever is sent to pots_task,
\* and audio_task has been told to disable the stream
C39_HangUpSilences ==
  ToneHungUp(pots) =>
    /\ ToneHangRank(pots) <= ToneHangBound
    /\ pots.pots_tone_state = "TONE_IDLE" => pots.audio_req = "DISABLE"
    /\ \A gen \in BOOLEAN :
         ToneHungUp(ToneHangPass({}, gen)) =>
           /\ ToneHangRank(ToneHangPass({}, gen)) < ToneHangRank(pots)
                \/ (ToneHangRank(pots) = 0 /\ ToneHangRank(ToneHangPass({}, gen)) = 0)
           /\ (/\ pots.pots_tone_state # "TONE_IDLE"
               /\ ToneHangPass({}, gen).pots_tone_state = "TONE_IDLE")
                => <<"audio", "DISABLE">> \in ToneHangPass({}, gen).sent
    /\ \A nv \in ToneHangWords, gen \in BOOLEAN :
         (pots.pots_tone_state = "TONE_IDLE" /\ ToneHungUp(ToneHangPass(nv, gen)))
           => ToneHangPass(nv, gen).pots_tone_state = "TONE_IDLE"

\* the handset has just been put down on the dial tone
C39_Witness ==
  /\ ToneHungUp(pots) /\ env.pots_notify = {}
  /\ pots.pots_tone_state = "TONE_DIAL_QUIET"

(***************************************************************************)
(* Properties of the line polarity (SpecRing)                              *)
(***************************************************************************)
\* a Caller ID line-reversal alert is in progress
CidLineReversal ==
  /\ potsInfo(pots).en_lr
  /\ pots.pots_cid_state \in {"CID_PRE_MSG_WAIT", "CID_MSG", "CID_POST_MSG_WAIT"}

\* C40: the line is reversed exactly when the ring state is RING_PULSE_ON:
\* every RING_PULSE_ON half-cycle has the line reversed, the first one after
\* a RING_STEP_WAIT included, and the line is not reversed in
\* RING_PULSE_OFF, RING_STEP_WAIT or RING_IDLE unless a Caller ID
\* line-reversal alert is in progress
C40_ReversedInPulseOn ==
  /\ pots.pots_ring_state = "RING_PULSE_ON" => pots.line_reverse
  /\ (pots.pots_ring_state # "RING_PULSE_ON" /\ ~CidLineReversal) => ~pots.line_reverse

\* the half that the code keeps: outside RING_PULSE_ON the line is reversed
\* only by Caller ID, and a RING_PULSE_ON without reversal is in a later step
\* of the cadence
C40_NotReversedOutsidePulseOn ==
  /\ (pots.pots_ring_state = "RING_PULSE_ON" /\ ~pots.line_reverse)
       => pots.pots_ring_step > 0
  /\ (pots.pots_ring_state # "RING_PULSE_ON" /\ ~CidLineReversal) => ~pots.line_reverse

=============================================================================
